---- MODULE Spec2Model ----
(***************************************************************************)
(* The terminal chart engine of flarectl (src/src/lib/auth.ts, lines 77 on) *)
(* and the geographic renderers (src/src/lib/ascii-worldmap.ts).           *)
(*                                                                         *)
(* Every render function is a pure function of its arguments.  The state   *)
(* machine has one caller: it is idle, calls one function with arguments    *)
(* drawn from bounded sets, holds the result, and returns to idle.         *)
(*                                                                         *)
(* JavaScript numbers are modelled as exact fractions <<n, d>> in lowest   *)
(* terms with d >= 0; d = 0 encodes the IEEE specials: <<1, 0>> is          *)
(* Infinity, <<-1, 0>> is -Infinity and <<0, 0>> is NaN.  Rounding of the  *)
(* 53-bit mantissa and the sign of zero are not modelled.                  *)
(* Strings are sequences of one-character strings; the box and block       *)
(* glyphs of the source are named by ASCII tokens.                         *)
(***************************************************************************)
EXTENDS Integers, Sequences, FiniteSets, TLC

VARIABLES
    fn,        \* the function whose call is in progress, or "idle"
    args,      \* its arguments
    out,       \* its return value
    raised,    \* whether the call threw instead of returning
    indices,   \* the glyph-array indices the call computed
    resampled, \* the call's resampled series (resampledData)
    previous,  \* the first sparkline call of a session and its result
    process,   \* the credential store's process: "off" or "on"
    env,       \* its environment variables
    file,      \* the content of credentials.json: <<>> when absent, else <<store>>
    cachedStore, \* the module variable cachedStore: <<>> when null, else <<store>>
    op,        \* the last operation on the credential store and its outcome
    analytics, \* the state of the Analytics screen and its requests in flight
    r2         \* the state of the R2 screen and its bucket loads in flight

chartVars == <<fn, args, out, raised, indices, resampled, previous>>

storeVars == <<process, env, file, cachedStore, op>>

screenVars == <<analytics, r2>>

appVars == <<storeVars, screenVars>>

vars == <<fn, args, out, raised, indices, resampled, previous,
          process, env, file, cachedStore, op, analytics, r2>>

(***************************************************************************)
(* Bounds of the model.                                                    *)
(***************************************************************************)
MaxLen == 4
MaxVal == 2
NegVals == 1
MaxTarget == 6
MaxChartLen == 2
MaxChartVal == 2
MaxWidth == 5
MaxHeight == 3
NegDims == 2

(***************************************************************************)
(* Numbers.                                                                *)
(***************************************************************************)
Abs(i) == IF i < 0 THEN -i ELSE i

Sign(i) == IF i < 0 THEN -1 ELSE IF i > 0 THEN 1 ELSE 0

RECURSIVE GCD(_, _)
GCD(a, b) == IF b = 0 THEN a ELSE GCD(b, a % b)

Norm(n, d) ==
    IF d = 0 THEN <<Sign(n), 0>>
    ELSE LET s == IF d < 0 THEN -1 ELSE 1
             g == GCD(Abs(n), Abs(d))
         IN  <<(s * n) \div g, (s * d) \div g>>

Num(i) == <<i, 1>>

NaN == <<0, 0>>

Infinity == <<1, 0>>

Undefined == <<"undefined">>

IsNaN(a) == a = NaN

IsFinite(a) == a[2] # 0

Neg(a) == <<-a[1], a[2]>>

Add(a, b) ==
    IF IsNaN(a) \/ IsNaN(b) THEN NaN
    ELSE IF a[2] = 0 /\ b[2] = 0 THEN (IF a = b THEN a ELSE NaN)
    ELSE IF a[2] = 0 THEN a
    ELSE IF b[2] = 0 THEN b
    ELSE Norm(a[1] * b[2] + b[1] * a[2], a[2] * b[2])

Sub(a, b) == Add(a, Neg(b))

Mul(a, b) == Norm(a[1] * b[1], a[2] * b[2])

Div(a, b) ==
    IF b[1] < 0 THEN Norm(-(a[1] * b[2]), -(a[2] * b[1]))
    ELSE Norm(a[1] * b[2], a[2] * b[1])

Lt(a, b) ==
    /\ ~IsNaN(a)
    /\ ~IsNaN(b)
    /\ IF a[2] = 0 \/ b[2] = 0 THEN a[1] * b[2] < b[1] * a[2] \/ (a[2] = b[2] /\ a[1] < b[1])
       ELSE IF a[1] \div a[2] # b[1] \div b[2] THEN a[1] \div a[2] < b[1] \div b[2]
       ELSE (a[1] % a[2]) * b[2] < (b[1] % b[2]) * a[2]

Le(a, b) == ~IsNaN(a) /\ ~IsNaN(b) /\ (a = b \/ Lt(a, b))

Ge(a, b) == Le(b, a)

Gt(a, b) == Lt(b, a)

Floor(a) == IF a[2] = 0 THEN a ELSE Num(a[1] \div a[2])

Ceil(a) == IF a[2] = 0 THEN a ELSE Num(-((-a[1]) \div a[2]))

Round(a) == Floor(Add(a, <<1, 2>>))

MathMin(a, b) ==
    IF IsNaN(a) \/ IsNaN(b) THEN NaN ELSE IF Lt(b, a) THEN b ELSE a

MathMax(a, b) ==
    IF IsNaN(a) \/ IsNaN(b) THEN NaN ELSE IF Lt(a, b) THEN b ELSE a

RECURSIVE MaxOf(_)
MaxOf(s) == IF s = <<>> THEN Neg(Infinity) ELSE MathMax(Head(s), MaxOf(Tail(s)))

RECURSIVE MinOf(_)
MinOf(s) == IF s = <<>> THEN Infinity ELSE MathMin(Head(s), MinOf(Tail(s)))

OrOne_keepZero(a) == a

OrOne(a) == IF a = Num(0) \/ IsNaN(a) THEN Num(1) ELSE a

At(s, idx) ==
    IF idx # Undefined /\ idx[2] = 1 /\ idx[1] >= 0 /\ idx[1] < Len(s)
    THEN s[idx[1] + 1]
    ELSE Undefined

Nullish(v, default) == IF v = Undefined THEN default ELSE v

(***************************************************************************)
(* Strings.                                                                *)
(***************************************************************************)
Trunc(a) ==
    IF IsNaN(a) THEN Num(0)
    ELSE IF a[2] = 0 THEN a
    ELSE IF a[1] < 0 THEN Ceil(a) ELSE Floor(a)

RepeatThrows(count) == Lt(Trunc(count), Num(0)) \/ Trunc(count) = Infinity

Repeat(s, count) ==
    LET n == Trunc(count)[1]
    IN  [i \in 1..(n * Len(s)) |-> s[((i - 1) % Len(s)) + 1]]

PadStart(s, targetLength) ==
    IF targetLength <= Len(s) THEN s
    ELSE Repeat(<<" ">>, Num(targetLength - Len(s))) \o s

PadEnd(s, targetLength, fill) ==
    IF targetLength <= Len(s) THEN s
    ELSE s \o Repeat(fill, Num(targetLength - Len(s)))

Clamp(i, lo, hi) == IF i < lo THEN lo ELSE IF i > hi THEN hi ELSE i

Substring(s, start, end) ==
    LET a == Clamp(start, 0, Len(s))
        b == Clamp(end, 0, Len(s))
    IN  IF a <= b THEN SubSeq(s, a + 1, b) ELSE SubSeq(s, b + 1, a)

Truthy(s) == s # Undefined /\ s # <<>>

DigitChars == <<"0", "1", "2", "3", "4", "5", "6", "7", "8", "9">>

RECURSIVE Digits(_)
Digits(n) ==
    IF n < 10 THEN <<DigitChars[n + 1]>>
    ELSE Append(Digits(n \div 10), DigitChars[(n % 10) + 1])

RECURSIVE Pow10(_)
Pow10(k) == IF k = 0 THEN 1 ELSE 10 * Pow10(k - 1)

(***************************************************************************)
(* Formatter.                                                              *)
(***************************************************************************)
AbsNum(a) == <<Abs(a[1]), a[2]>>

toFixedAbs(a, fractionDigits) ==
    LET n == Floor(Add(Mul(a, Num(Pow10(fractionDigits))), <<1, 2>>))[1]
        ds == Digits(n)
        padded == IF Len(ds) > fractionDigits THEN ds
                  ELSE Repeat(<<"0">>, Num(fractionDigits + 1 - Len(ds))) \o ds
    IN  IF fractionDigits = 0 THEN ds
        ELSE SubSeq(padded, 1, Len(padded) - fractionDigits) \o <<".">>
             \o SubSeq(padded, Len(padded) - fractionDigits + 1, Len(padded))

toFixed(a, fractionDigits) ==
    IF Lt(a, Num(0)) THEN <<"-">> \o toFixedAbs(AbsNum(a), fractionDigits)
    ELSE toFixedAbs(a, fractionDigits)

RECURSIVE Exponent10(_, _)
Exponent10(a, e) ==
    IF Ge(a, Num(10)) THEN Exponent10(Div(a, Num(10)), e + 1)
    ELSE IF Lt(a, Num(1)) THEN Exponent10(Mul(a, Num(10)), e - 1)
    ELSE e

toPrecision2(a) ==
    IF a = Num(0) THEN <<"0", ".", "0">>
    ELSE LET e0 == Exponent10(a, 0)
             scaled(e) == IF e >= 1 THEN Div(a, Num(Pow10(e - 1)))
                          ELSE Mul(a, Num(Pow10(1 - e)))
             n0 == Floor(Add(scaled(e0), <<1, 2>>))[1]
             e == IF n0 = 100 THEN e0 + 1 ELSE e0
             n == IF n0 = 100 THEN 10 ELSE n0
             d1 == <<DigitChars[(n \div 10) + 1]>>
             d2 == <<DigitChars[(n % 10) + 1]>>
         IN  IF e < -6 \/ e >= 2
             THEN d1 \o <<".">> \o d2 \o <<"e">>
                  \o (IF e < 0 THEN <<"-">> ELSE <<"+">>) \o Digits(Abs(e))
             ELSE IF e = 1 THEN d1 \o d2
             ELSE IF e = 0 THEN d1 \o <<".">> \o d2
             ELSE <<"0", ".">> \o Repeat(<<"0">>, Num(-(e + 1))) \o d1 \o d2

Million == 1000000

formatCompact(value) ==
    LET absValue == AbsNum(value)
        sign == IF Lt(value, Num(0)) THEN <<"-">> ELSE <<>>
        whole == Floor(absValue)[1]
    IN  IF whole \div Million >= Million
        THEN sign \o toFixed(Div(Div(absValue, Num(Million)), Num(Million)), 1) \o <<"T">>
        ELSE IF whole \div Million >= 1000
        THEN sign \o toFixed(Div(Div(absValue, Num(Million)), Num(1000)), 1) \o <<"B">>
        ELSE IF whole >= Million
        THEN sign \o toFixed(Div(absValue, Num(Million)), 1) \o <<"M">>
        ELSE IF whole >= 1000
        THEN sign \o toFixed(Div(absValue, Num(1000)), 1) \o <<"K">>
        ELSE IF whole >= 1
        THEN sign \o toFixed(absValue, 0)
        ELSE IF Ge(absValue, <<1, 100>>)
        THEN sign \o toFixed(absValue, 2)
        ELSE sign \o toPrecision2(absValue)

(***************************************************************************)
(* formatCompact on an integer value = sign * (millions * Million + units) *)
(* with 0 <= units < Million, which reaches 1e12 and beyond.  From 1e8 on  *)
(* the tenths of (absValue / scale).toFixed(1), which are                  *)
(* floor((absValue + scale/20) / (scale/10)), are computed on the millions *)
(* and units separately; from 1e9 on they do not depend on the units.      *)
(***************************************************************************)
compactTenths(millions, per) == (millions + (per \div 2)) \div per

tenthsString(n) == Digits(n \div 10) \o <<".", DigitChars[(n % 10) + 1]>>

formatCompactLarge_noT(sign, millions, units) ==
    IF millions >= 1000
    THEN sign \o tenthsString(compactTenths(millions, 100)) \o <<"B">>
    ELSE sign \o tenthsString(millions * 10 + ((units + 50000) \div 100000)) \o <<"M">>

formatCompactLarge(sign, millions, units) ==
    IF millions >= Million
    THEN sign \o tenthsString(compactTenths(millions, 100000)) \o <<"T">>
    ELSE IF millions >= 1000
    THEN sign \o tenthsString(compactTenths(millions, 100)) \o <<"B">>
    ELSE sign \o tenthsString(millions * 10 + ((units + 50000) \div 100000)) \o <<"M">>

formatCompactInteger(value) ==
    IF value.millions >= 100
    THEN formatCompactLarge(IF value.sign < 0 THEN <<"-">> ELSE <<>>,
                            value.millions, value.units)
    ELSE formatCompact(Num(value.sign * (value.millions * Million + value.units)))

\* formatBytes of the chart engine (auth.ts)
BYTE_UNITS == <<<<"B">>, <<"K", "B">>, <<"M", "B">>, <<"G", "B">>, <<"T", "B">>, <<"P", "B">>>>

RECURSIVE bytesLoop(_, _, _)
bytesLoop(size, unitIndex, units) ==
    IF Ge(size, Num(1024)) /\ unitIndex < Len(units) - 1
    THEN bytesLoop(Div(size, Num(1024)), unitIndex + 1, units)
    ELSE <<size, unitIndex>>

formatBytesOf(bytes, sized) ==
    (IF Lt(bytes, Num(0)) THEN <<"-">> ELSE <<>>)
    \o toFixed(sized[1], IF sized[2] > 0 THEN 1 ELSE 0) \o <<" ">> \o BYTE_UNITS[sized[2] + 1]

formatBytes(bytes) == formatBytesOf(bytes, bytesLoop(AbsNum(bytes), 0, BYTE_UNITS))

(***************************************************************************)
(* resample                                                                *)
(***************************************************************************)
upsampleRatio_noMinusOne(length, targetLength) == Div(Num(length), Num(targetLength))

upsampleRatio(length, targetLength) == Div(Num(length - 1), Num(targetLength - 1))

interpolate_noComplement(data, pos) ==
    LET lower == Floor(pos)
        upper == Ceil(pos)
        weight == Sub(pos, lower)
    IN  IF lower = upper /\ ~IsNaN(lower)
        THEN Nullish(At(data, lower), Num(0))
        ELSE LET lowerVal == Nullish(At(data, lower), Num(0))
                 upperVal == Nullish(At(data, upper), Num(0))
             IN  Add(lowerVal, Mul(upperVal, weight))

interpolate(data, pos) ==
    LET lower == Floor(pos)
        upper == Ceil(pos)
        weight == Sub(pos, lower)
    IN  IF lower = upper /\ ~IsNaN(lower)
        THEN Nullish(At(data, lower), Num(0))
        ELSE LET lowerVal == Nullish(At(data, lower), Num(0))
                 upperVal == Nullish(At(data, upper), Num(0))
             IN  Add(Mul(lowerVal, Sub(Num(1), weight)), Mul(upperVal, weight))

upsample_fromOne(data, targetLength) ==
    [i \in 1..targetLength |->
        interpolate(data, Mul(Num(i), upsampleRatio(Len(data), targetLength)))]

upsample(data, targetLength) ==
    LET ratio == upsampleRatio(Len(data), targetLength)
    IN  [i \in 1..targetLength |-> interpolate(data, Mul(Num(i - 1), ratio))]

RECURSIVE bucketSum(_, _, _)
bucketSum(data, j, end) ==
    IF Lt(Num(j), end) /\ j < Len(data)
    THEN LET rest == bucketSum(data, j + 1, end)
         IN  [sum |-> Add(Nullish(At(data, Num(j)), Num(0)), rest.sum),
              count |-> rest.count + 1]
    ELSE [sum |-> Num(0), count |-> 0]

(***************************************************************************)
(* Math.floor(i * ratio) in the downsampling branch.  ratio is the double  *)
(* nearest to data.length / targetLength and the product is rounded again; *)
(* for the ratios below the rounded product of the listed i falls just     *)
(* under the integer i * data.length / targetLength (15 / 11 * 11 is       *)
(* 14.999999999999998), so its floor is one less than the exact floor.     *)
(* These are all such cases for data.length <= 23.                         *)
(***************************************************************************)
ROUNDED_BELOW == {<<15, 11, 11>>, <<15, 13, 13>>}

floorOfProduct(i, ratio) ==
    IF <<ratio[1], ratio[2], i>> \in ROUNDED_BELOW
    THEN Sub(Floor(Mul(Num(i), ratio)), Num(1))
    ELSE Floor(Mul(Num(i), ratio))

bucketMean(data, ratio, i) ==
    LET start == floorOfProduct(i, ratio)
        end == floorOfProduct(i + 1, ratio)
        b == bucketSum(data, start[1], end)
    IN  IF b.count > 0 THEN Div(b.sum, Num(b.count)) ELSE Num(0)

downsample_offByOne(data, targetLength) ==
    LET ratio == Div(Num(Len(data)), Num(targetLength))
    IN  [i \in 1..(targetLength + 1) |-> bucketMean(data, ratio, i - 1)]

downsample(data, targetLength) ==
    LET ratio == Div(Num(Len(data)), Num(targetLength))
    IN  [i \in 1..targetLength |-> bucketMean(data, ratio, i - 1)]

resample_noIdentity(data, targetLength) ==
    IF Len(data) = 0 THEN <<>>
    ELSE IF Len(data) <= targetLength THEN upsample(data, targetLength)
    ELSE downsample(data, targetLength)

resample(data, targetLength) ==
    IF Len(data) = 0 THEN <<>>
    ELSE IF Len(data) = targetLength THEN data
    ELSE IF Len(data) < targetLength THEN upsample(data, targetLength)
    ELSE downsample(data, targetLength)

(***************************************************************************)
(* Glyph tables.  A glyph is named by its code point: u2581..u2588 are the *)
(* lower one-eighth block up to the full block, u2502 the vertical line,    *)
(* u2500 the horizontal line, u2514 the lower-left corner.                  *)
(***************************************************************************)
SPARKLINE_CHARS ==
    << <<"u2581">>, <<"u2582">>, <<"u2583">>, <<"u2584">>,
       <<"u2585">>, <<"u2586">>, <<"u2587">>, <<"u2588">> >>

BAR_FULL == <<"u2588">>

Space == <<" ">>

Default(v, d) == IF v = Undefined THEN d ELSE v

(***************************************************************************)
(* sparkline                                                               *)
(***************************************************************************)
sparklineIndex_noClamp(value, min, range) ==
    MathMax(Num(0), Floor(Mul(Div(Sub(value, min), range), Num(Len(SPARKLINE_CHARS)))))

\* The index as it would be if the glyph table were exhausted by the first call.
sparklineIndex_afterFirst(value, min, range) ==
    IF previous = <<>>
    THEN MathMax(Num(0),
                 MathMin(Floor(Mul(Div(Sub(value, min), range), Num(Len(SPARKLINE_CHARS)))),
                         Num(Len(SPARKLINE_CHARS) - 1)))
    ELSE Num(0)

sparklineIndex(value, min, range) ==
    MathMax(Num(0),
            MathMin(Floor(Mul(Div(Sub(value, min), range), Num(Len(SPARKLINE_CHARS)))),
                    Num(Len(SPARKLINE_CHARS) - 1)))

RECURSIVE Join(_)
Join(strs) == IF strs = <<>> THEN <<>> ELSE Head(strs) \o Join(Tail(strs))

sparklineGlyphs(resampledData, idx) ==
    [value |-> Join([i \in 1..Len(resampledData) |->
                       Nullish(At(SPARKLINE_CHARS, idx[i]), <<>>)]),
     indices |-> {idx[i] : i \in 1..Len(resampledData)},
     resampled |-> resampledData]

sparklineMap(resampledData, min, range) ==
    sparklineGlyphs(resampledData,
                    [i \in 1..Len(resampledData) |->
                        sparklineIndex(resampledData[i], min, range)])

sparklineScaled(data, width, min, max) ==
    sparklineMap(resample(data, width), min, OrOne(Sub(max, min)))

sparkline(data, options) ==
    IF Len(data) = 0 THEN [value |-> <<>>, indices |-> {}, resampled |-> <<>>]
    ELSE sparklineScaled(data,
                         Default(options.width, Num(Len(data)))[1],
                         Nullish(options.min, MinOf(data)),
                         Nullish(options.max, MaxOf(data)))

\* points.map((p) => p.value)
PointValues(points) == [i \in 1..Len(points) |-> points[i].value]

sparklineFromPoints(points, options) ==
    IF Len(points) = 0 THEN [value |-> <<>>, indices |-> {}, resampled |-> <<>>]
    ELSE sparkline(PointValues(points), options)

(***************************************************************************)
(* histogram                                                               *)
(***************************************************************************)
histogramFull(over, height) ==
    [glyph |-> Nullish(At(SPARKLINE_CHARS,
                          MathMax(Num(0),
                                  MathMin(Floor(Mul(Mul(over, Num(height)),
                                                    Num(Len(SPARKLINE_CHARS)))),
                                          Num(Len(SPARKLINE_CHARS) - 1)))),
                       BAR_FULL),
     indices |-> {MathMax(Num(0),
                          MathMin(Floor(Mul(Mul(over, Num(height)),
                                            Num(Len(SPARKLINE_CHARS)))),
                                  Num(Len(SPARKLINE_CHARS) - 1)))}]

histogramPartial(partialHeight) ==
    [glyph |-> Nullish(At(SPARKLINE_CHARS,
                          MathMax(Num(0),
                                  Floor(Mul(partialHeight, Num(Len(SPARKLINE_CHARS)))))),
                       Space),
     indices |-> {MathMax(Num(0), Floor(Mul(partialHeight, Num(Len(SPARKLINE_CHARS)))))}]

histogramBand(value, threshold, height) ==
    IF Ge(value, threshold) THEN histogramFull(Sub(value, threshold), height)
    ELSE IF Ge(value, Sub(threshold, Div(Num(1), Num(height))))
    THEN histogramPartial(Mul(Sub(value, Sub(threshold, Div(Num(1), Num(height)))),
                              Num(height)))
    ELSE [glyph |-> Space, indices |-> {}]

histogramCell(value, row, height) ==
    histogramBand(value, Div(Num(2 * row + 1), Num(2 * height)), height)

HISTOGRAM_WIDTH == 50

HISTOGRAM_HEIGHT == 8

LABEL_WIDTH == 6

histogramTitle(title, width) ==
    IF Truthy(title)
    THEN << PadStart(Substring(title, 0, width), (width \div 2) + (Len(title) \div 2)),
            <<>> >>
    ELSE <<>>

histogramAxis(row, height, min, max) ==
    IF row = height - 1
    THEN PadStart(formatCompact(max), LABEL_WIDTH) \o <<" ", "u2502">>
    ELSE IF row = 0
    THEN PadStart(formatCompact(min), LABEL_WIDTH) \o <<" ", "u2502">>
    ELSE <<" ", " ", " ", " ", " ", " ", " ", "u2502">>

histogramAxisLine(width) ==
    <<" ", " ", " ", " ", " ", " ", " ", "u2514">> \o Repeat(<<"u2500">>, width)

histogramCells(normalizedData, width, height) ==
    [row \in 0..(height - 1) |-> [col \in 0..(width - 1) |->
        histogramCell(Nullish(At(normalizedData, Num(col)), Num(0)), row, height)]]

histogramLines(cells, width, height, showAxis, title, min, max) ==
    histogramTitle(title, width)
    \o [k \in 1..height |->
           (IF showAxis THEN histogramAxis(height - k, height, min, max) ELSE <<>>)
           \o Join([c \in 1..width |-> cells[height - k][c - 1].glyph])]
    \o (IF showAxis THEN <<histogramAxisLine(Num(width))>> ELSE <<>>)

histogramResult(cells, resampledData, width, height, showAxis, title, min, max) ==
    IF showAxis /\ RepeatThrows(Num(width))
    THEN [raised |-> TRUE, value |-> <<>>, indices |-> {}, resampled |-> resampledData]
    ELSE [raised |-> FALSE,
          value |-> histogramLines(cells, width, height, showAxis, title, min, max),
          indices |-> UNION {cells[row][col].indices :
                                row \in 0..(height - 1), col \in 0..(width - 1)},
          resampled |-> resampledData]

histogramNormalized(resampledData, min, range) ==
    [i \in 1..Len(resampledData) |-> Div(Sub(resampledData[i], min), range)]

histogramScaled(resampledData, width, height, showAxis, title, min, max) ==
    histogramResult(
        histogramCells(histogramNormalized(resampledData, min, OrOne(Sub(max, min))),
                       width, height),
        resampledData, width, height, showAxis, title, min, max)

histogramSized(data, width, height, showAxis, title) ==
    histogramScaled(resample(data, width), width, height, showAxis, title,
                    MinOf(data), MaxOf(data))

histogram(data, options) ==
    IF Len(data) = 0
    THEN [raised |-> FALSE, value |-> <<>>, indices |-> {}, resampled |-> <<>>]
    ELSE histogramSized(data,
                        Default(options.width, Num(HISTOGRAM_WIDTH))[1],
                        Default(options.height, Num(HISTOGRAM_HEIGHT))[1],
                        options.showAxis, options.title)

histogramFromPoints(points, options) ==
    IF Len(points) = 0
    THEN [raised |-> FALSE, value |-> <<>>, indices |-> {}, resampled |-> <<>>]
    ELSE histogram(PointValues(points), options)

(***************************************************************************)
(* areaChart                                                               *)
(***************************************************************************)
areaPartial(partial) ==
    [glyph |-> Nullish(At(SPARKLINE_CHARS, Floor(Mul(partial, Num(Len(SPARKLINE_CHARS))))),
                       <<"u2581">>),
     indices |-> {Floor(Mul(partial, Num(Len(SPARKLINE_CHARS))))}]

areaCell_strict(value, row) ==
    IF Gt(value, Num(row)) THEN [glyph |-> BAR_FULL, indices |-> {}]
    ELSE IF Ge(value, Num(row - 1)) THEN areaPartial(Sub(value, Floor(value)))
    ELSE [glyph |-> Space, indices |-> {}]

areaCell(value, row) ==
    IF Ge(value, Num(row)) THEN [glyph |-> BAR_FULL, indices |-> {}]
    ELSE IF Ge(value, Num(row - 1)) THEN areaPartial(Sub(value, Floor(value)))
    ELSE [glyph |-> Space, indices |-> {}]

AREA_WIDTH == 60

AREA_HEIGHT == 10

areaLabel(row, height, min, max) ==
    PadStart(IF row = height THEN formatCompact(max)
             ELSE IF row = 1 THEN formatCompact(min)
             ELSE <<>>, LABEL_WIDTH) \o <<" ", "u2502", " ">>

areaAxisLine(width) ==
    <<" ", " ", " ", " ", " ", " ", " ", "u2514">> \o Repeat(<<"u2500">>, Add(width, Num(1)))

areaCells(normalizedData, width, height) ==
    [row \in 1..height |-> [col \in 0..(width - 1) |->
        areaCell(Nullish(At(normalizedData, Num(col)), Num(0)), row)]]

areaLines(cells, width, height, showLabels, min, max) ==
    [k \in 1..height |->
        (IF showLabels THEN areaLabel(height + 1 - k, height, min, max) ELSE <<>>)
        \o Join([c \in 1..width |-> cells[height + 1 - k][c - 1].glyph])]
    \o (IF showLabels THEN <<areaAxisLine(Num(width))>> ELSE <<>>)

areaResult(cells, resampledData, width, height, showLabels, min, max) ==
    IF showLabels /\ RepeatThrows(Num(width + 1))
    THEN [raised |-> TRUE, value |-> <<>>, indices |-> {}, resampled |-> resampledData]
    ELSE [raised |-> FALSE,
          value |-> areaLines(cells, width, height, showLabels, min, max),
          indices |-> UNION {cells[row][col].indices :
                                row \in 1..height, col \in 0..(width - 1)},
          resampled |-> resampledData]

areaNormalized(resampledData, min, range, height) ==
    [i \in 1..Len(resampledData) |->
        Mul(Div(Sub(resampledData[i], min), range), Num(height))]

areaScaled(resampledData, width, height, showLabels, min, max) ==
    areaResult(
        areaCells(areaNormalized(resampledData, min, OrOne(Sub(max, min)), height),
                  width, height),
        resampledData, width, height, showLabels, min, max)

areaSized(data, width, height, showLabels) ==
    areaScaled(resample(data, width), width, height, showLabels, MinOf(data), MaxOf(data))

areaChart_noEmptyCheck(data, options) ==
    areaSized(data,
              Default(options.width, Num(AREA_WIDTH))[1],
              Default(options.height, Num(AREA_HEIGHT))[1],
              options.showLabels)

areaChart(data, options) ==
    IF Len(data) = 0
    THEN [raised |-> FALSE, value |-> <<>>, indices |-> {}, resampled |-> <<>>]
    ELSE areaSized(data,
                   Default(options.width, Num(AREA_WIDTH))[1],
                   Default(options.height, Num(AREA_HEIGHT))[1],
                   options.showLabels)

areaChartFromPoints(points, options) ==
    IF Len(points) = 0
    THEN [raised |-> FALSE, value |-> <<>>, indices |-> {}, resampled |-> <<>>]
    ELSE areaChart(PointValues(points), options)

(***************************************************************************)
(* The credential store (src/unnamed/part_003).  An account is held by its *)
(* email and its API token; accountId, accountName and createdAt are       *)
(* carried along with the token and are left out.  null is Null.           *)
(***************************************************************************)
Null == "null"

EMPTY_STORE == [current |-> Null, accounts |-> <<>>]

envStore(environment) ==
    [current |-> "env",
     accounts |-> <<[email |-> IF environment.email = "" THEN "env-user"
                               ELSE environment.email,
                     apiToken |-> "env-token"]>>]

loadCredentials(cached, environment, fileContent) ==
    IF cached # <<>> THEN cached[1]
    ELSE IF environment.token THEN envStore(environment)
    ELSE IF fileContent # <<>> THEN fileContent[1]
    ELSE EMPTY_STORE

\* Array.prototype.find on the accounts: <<>> when undefined, else <<index>>
findAccount(accounts, email) ==
    IF \E i \in 1..Len(accounts) : accounts[i].email = email
    THEN <<CHOOSE i \in 1..Len(accounts) :
              /\ accounts[i].email = email
              /\ \A j \in 1..(i - 1) : accounts[j].email # email>>
    ELSE <<>>

addAccountTo(store, account, existing) ==
    [current |-> account.email,
     accounts |-> IF existing # <<>>
                  THEN [store.accounts EXCEPT ![existing[1]].apiToken = account.apiToken]
                  ELSE Append(store.accounts, account)]

addAccount(store, account) == addAccountTo(store, account, findAccount(store.accounts, account.email))

accountsWithout(accounts, email) ==
    LET keep(a) == a.email # email IN SelectSeq(accounts, keep)

removeAccountFrom(store, email, remaining) ==
    [current |-> IF store.current = email
                 THEN IF remaining # <<>> /\ remaining[1].email # ""
                      THEN remaining[1].email
                      ELSE Null
                 ELSE store.current,
     accounts |-> remaining]

removeAccount(store, email) == removeAccountFrom(store, email, accountsWithout(store.accounts, email))

switchAccount_unchecked(store, email) ==
    [threw |-> FALSE, store |-> [store EXCEPT !.current = email]]

switchAccount(store, email) ==
    IF findAccount(store.accounts, email) = <<>>
    THEN [threw |-> TRUE, store |-> store]
    ELSE [threw |-> FALSE, store |-> [store EXCEPT !.current = email]]

\* <<>> when null, else <<account>>
getCurrentAccount(store) ==
    IF store.current = Null \/ store.current = ""
    THEN IF store.accounts # <<>> THEN <<store.accounts[1]>> ELSE <<>>
    ELSE IF findAccount(store.accounts, store.current) # <<>>
    THEN <<store.accounts[findAccount(store.accounts, store.current)[1]]>>
    ELSE <<>>

isAuthenticated(cached) == cached # <<>> /\ Len(cached[1].accounts) > 0

(***************************************************************************)
(* Inputs.                                                                 *)
(***************************************************************************)
(* Number to string conversions of the proportional renderers.  Values are *)
(* integers here; a non-integer never reaches these conversions.           *)
(***************************************************************************)
NumberToString(a) ==
    IF IsNaN(a) THEN <<"N", "a", "N">>
    ELSE IF a = Infinity THEN <<"I", "n", "f", "i", "n", "i", "t", "y">>
    ELSE IF a = Neg(Infinity) THEN <<"-", "I", "n", "f", "i", "n", "i", "t", "y">>
    ELSE IF a[1] < 0 THEN <<"-">> \o Digits(-a[1])
    ELSE Digits(a[1])

RECURSIVE Grouped(_)
Grouped(ds) ==
    IF Len(ds) <= 3 THEN ds
    ELSE Grouped(SubSeq(ds, 1, Len(ds) - 3)) \o <<",">> \o SubSeq(ds, Len(ds) - 2, Len(ds))

\* Number.prototype.toLocaleString() of an integer in the en-US locale.
toLocaleString(a) ==
    IF IsNaN(a) THEN <<"N", "a", "N">>
    ELSE IF a[1] < 0 THEN <<"-">> \o Grouped(Digits(-a[1]))
    ELSE Grouped(Digits(a[1]))

Plain(value) == [raised |-> FALSE, value |-> value, indices |-> {}, resampled |-> <<>>]

Throws == [raised |-> TRUE, value |-> <<>>, indices |-> {}, resampled |-> <<>>]

(***************************************************************************)
(* progressBar                                                             *)
(***************************************************************************)
PROGRESS_WIDTH == 20

PROGRESS_FILLED == <<"u2588">>

PROGRESS_EMPTY == <<"u2591">>

progressPercentage_noClamp(value, max) == Div(value, max)

progressPercentage(value, max) == MathMin(MathMax(Div(value, max), Num(0)), Num(1))

progressSuffix(percentage, showPercentage) ==
    IF showPercentage
    THEN <<" ">> \o NumberToString(Round(Mul(percentage, Num(100)))) \o <<"%">>
    ELSE <<>>

progressBarOf(filledWidth, emptyWidth, suffix) ==
    IF RepeatThrows(filledWidth) \/ RepeatThrows(emptyWidth) THEN Throws
    ELSE Plain(Repeat(PROGRESS_FILLED, filledWidth) \o Repeat(PROGRESS_EMPTY, emptyWidth)
               \o suffix)

progressFilled(percentage, width, filledWidth, showPercentage) ==
    progressBarOf(filledWidth, Sub(width, filledWidth),
                  progressSuffix(percentage, showPercentage))

progressScaled(percentage, width, showPercentage) ==
    progressFilled(percentage, width, Round(Mul(percentage, width)), showPercentage)

progressBar(value, max, options) ==
    progressScaled(progressPercentage(value, max),
                   Default(options.width, Num(PROGRESS_WIDTH)),
                   options.showPercentage)

(***************************************************************************)
(* barChart                                                                *)
(***************************************************************************)
BAR_WIDTH == 30

MAX_LABEL_WIDTH == 15

BAR_PARTIAL ==
    << <<>>, <<"u258F">>, <<"u258E">>, <<"u258D">>, <<"u258C">>, <<"u258B">>,
       <<"u258A">>, <<"u2589">> >>

ItemValues(items) == [i \in 1..Len(items) |-> items[i].value]

barMaxValue(items) == MathMax(MaxOf(ItemValues(items)), Num(1))

barLabel(label, maxLabelWidth) ==
    PadEnd(Substring(label, 0, maxLabelWidth), maxLabelWidth, Space)

barPartial(fullBlocks, partialBlock, width) ==
    IF Gt(partialBlock, Num(0)) /\ Lt(fullBlocks, width)
    THEN Nullish(At(BAR_PARTIAL, partialBlock), <<>>)
    ELSE <<>>

barBlocks(fullBlocks, partialBlock, width) ==
    PadEnd(Repeat(BAR_FULL, fullBlocks) \o barPartial(fullBlocks, partialBlock, width),
           width[1], Space)

barFull(barWidth, fullBlocks, width) ==
    barBlocks(fullBlocks, Round(Mul(Sub(barWidth, fullBlocks), Num(8))), width)

barWidthOf(value, maxValue, width) == Round(Mul(Div(value, maxValue), width))

barThrows(value, maxValue, width) == RepeatThrows(Floor(barWidthOf(value, maxValue, width)))

barOf(barWidth, width) == barFull(barWidth, Floor(barWidth), width)

barValueStr(value, showValue) ==
    IF showValue THEN <<" ">> \o toLocaleString(value) ELSE <<>>

barLine(item, maxValue, width, showValue, maxLabelWidth) ==
    barLabel(item.label, maxLabelWidth) \o <<" ">>
    \o barOf(barWidthOf(item.value, maxValue, width), width)
    \o barValueStr(item.value, showValue)

barLines(items, maxValue, width, showValue, maxLabelWidth) ==
    IF \E i \in 1..Len(items) : barThrows(items[i].value, maxValue, width) THEN Throws
    ELSE Plain([i \in 1..Len(items) |->
                   barLine(items[i], maxValue, width, showValue, maxLabelWidth)])

barChart(items, options) ==
    IF Len(items) = 0 THEN Plain(<<>>)
    ELSE barLines(items, barMaxValue(items),
                  Default(options.width, Num(BAR_WIDTH)),
                  options.showValue,
                  Default(options.maxLabelWidth, Num(MAX_LABEL_WIDTH))[1])

(***************************************************************************)
(* donutChart.  Math.atan2 is tabulated: the angle of a grid direction, in *)
(* turns, is a rational only for the multiples of 1/8 turn, which are kept *)
(* exact; any other angle is irrational and is kept as the interval of     *)
(* width 10^-6 turn that contains it.                                      *)
(***************************************************************************)
DONUT_SIZE == 7

DONUT_CHARS ==
    << <<"u2588">>, <<"u2593">>, <<"u2592">>, <<"u2591">>, <<"u25AA">>, <<"u25AB">>,
       <<"u25C6">>, <<"u25C7">> >>

AtanMicroTurns(q, p) ==
    CASE q = 1 /\ p = 2 -> 73791 []
         q = 1 /\ p = 3 -> 51208 []
         q = 2 /\ p = 3 -> 93583 []
         q = 1 /\ p = 4 -> 38989 []
         q = 3 /\ p = 4 -> 102416 []
         q = 1 /\ p = 5 -> 31416 []
         q = 2 /\ p = 5 -> 60559 []
         q = 3 /\ p = 5 -> 86010 []
         q = 4 /\ p = 5 -> 107388 []
         q = 1 /\ p = 6 -> 26284 []
         q = 5 /\ p = 6 -> 110571 []
         q = 1 /\ p = 7 -> 22583 []
         q = 2 /\ p = 7 -> 44292 []
         q = 3 /\ p = 7 -> 64440 []
         q = 4 /\ p = 7 -> 82624 []
         q = 5 /\ p = 7 -> 98715 []
         q = 6 /\ p = 7 -> 112781 []
         q = 1 /\ p = 8 -> 19791 []
         q = 3 /\ p = 8 -> 57100 []
         q = 5 /\ p = 8 -> 88903 []
         q = 7 /\ p = 8 -> 114405 []
         q = 1 /\ p = 9 -> 17611 []
         q = 2 /\ p = 9 -> 34802 []
         q = 4 /\ p = 9 -> 66562 []
         q = 5 /\ p = 9 -> 80707 []
         q = 7 /\ p = 9 -> 105208 []
         q = 8 /\ p = 9 -> 115648

ExactTurn(t) == [lo |-> t, hi |-> t]

\* m millionths of a turn < the angle < m + 1 millionths of a turn
OctantTurnOf(m) == [lo |-> Norm(m, 1000000), hi |-> Norm(m + 1, 1000000)]

\* atan(q / p) / 2 pi for 0 < q < p
OctantTurn(q, p, g) == OctantTurnOf(AtanMicroTurns(q \div g, p \div g))

ReflectTurn(base, t) == [lo |-> Sub(base, t.hi), hi |-> Sub(base, t.lo)]

ShiftTurn(base, t) == [lo |-> Add(base, t.lo), hi |-> Add(base, t.hi)]

\* atan2(Y, X) / 2 pi for X > 0 and Y > 0
QuadrantTurn(X, Y) ==
    IF X = Y THEN ExactTurn(<<1, 8>>)
    ELSE IF Y < X THEN OctantTurn(Y, X, GCD(X, Y))
    ELSE ReflectTurn(<<1, 4>>, OctantTurn(X, Y, GCD(Y, X)))

\* The normalized angle of lines 395-397: atan2(Y, X), plus a full turn when
\* negative, divided by 2 pi.
NormalizedAngle(X, Y) ==
    IF Y = 0 THEN (IF X >= 0 THEN ExactTurn(Num(0)) ELSE ExactTurn(<<1, 2>>))
    ELSE IF X = 0 THEN (IF Y > 0 THEN ExactTurn(<<1, 4>>) ELSE ExactTurn(<<3, 4>>))
    ELSE IF X > 0 /\ Y > 0 THEN QuadrantTurn(X, Y)
    ELSE IF X < 0 /\ Y > 0 THEN ReflectTurn(<<1, 2>>, QuadrantTurn(-X, Y))
    ELSE IF X < 0 /\ Y < 0 THEN ShiftTurn(<<1, 2>>, QuadrantTurn(-X, -Y))
    ELSE ReflectTurn(Num(1), QuadrantTurn(X, -Y))

\* normalizedAngle <= cumulativePercentage
AngleLe(angle, cumulativePercentage) ==
    IF angle.lo = angle.hi THEN Le(angle.lo, cumulativePercentage)
    ELSE Le(angle.hi, cumulativePercentage)

RECURSIVE SumValues(_)
SumValues(items) ==
    IF items = <<>> THEN Num(0)
    ELSE Add(SumValues(SubSeq(items, 1, Len(items) - 1)), items[Len(items)].value)

donutSegments(items, total) ==
    [i \in 1..Len(items) |->
        [char |-> Nullish(items[i].char, DONUT_CHARS[((i - 1) % Len(DONUT_CHARS)) + 1]),
         percentage |-> Div(items[i].value, total),
         label |-> items[i].label]]

RECURSIVE donutPick(_, _, _, _)
donutPick(segments, i, cumulativePercentage, angle) ==
    IF i > Len(segments) THEN Undefined
    ELSE IF AngleLe(angle, Add(cumulativePercentage, segments[i].percentage))
    THEN segments[i].char
    ELSE donutPick(segments, i + 1, Add(cumulativePercentage, segments[i].percentage),
                   angle)

donutSegmentChar(segments, angle) ==
    Nullish(donutPick(segments, 1, Num(0), angle), segments[1].char)

\* dx * dx + dy * dy, with dx = x / 2 - center and dy = y - center
donutDistance2(x, y, center) ==
    Add(Mul(Sub(Div(Num(x), Num(2)), Num(center)), Sub(Div(Num(x), Num(2)), Num(center))),
        Num((y - center) * (y - center)))

donutInRing_noHole(distance2, radius) ==
    /\ radius > 0
    /\ Lt(distance2, Num(radius * radius))

\* distance < radius && distance > radius * 0.4, on the squares
donutInRing(distance2, radius) ==
    /\ radius > 0
    /\ Lt(distance2, Num(radius * radius))
    /\ Gt(distance2, Norm(4 * radius * radius, 25))

donutCell(segments, x, y, radius) ==
    IF donutInRing(donutDistance2(x, y, radius), radius)
    THEN donutSegmentChar(segments, NormalizedAngle(x - 2 * radius, 2 * (y - radius)))
    ELSE Space

donutGrid(segments, size, radius) ==
    [row \in 1..size |->
        Join([col \in 1..(size * 2) |-> donutCell(segments, col - 1, row - 1, radius)])]

donutLegend(segments, showLegend) ==
    IF showLegend
    THEN << <<>> >> \o
         [i \in 1..Len(segments) |->
             <<" ", " ">> \o segments[i].char \o <<" ">> \o segments[i].label \o <<":", " ">>
             \o NumberToString(Round(Mul(segments[i].percentage, Num(100)))) \o <<"%">>]
    ELSE <<>>

donutLines(segments, size, showLegend) ==
    Plain(donutGrid(segments, size, Floor(Div(Num(size), Num(2)))[1]) \o donutLegend(segments, showLegend))

donutChart(items, options) ==
    IF Len(items) = 0 THEN Plain(<<>>)
    ELSE donutLines(donutSegments(items, SumValues(items)),
                    Default(options.size, Num(DONUT_SIZE))[1],
                    options.showLegend)

(***************************************************************************)
(* renderSimpleWorldMap (ascii-worldmap.ts)                                *)
(***************************************************************************)
REGION_CODES == <<"NA", "SA", "EU", "AF", "AS", "OC">>

REGION_NAMES ==
    << <<"N", "o", "r", "t", "h", " ", "A", "m", "e", "r", "i", "c", "a">>,
       <<"S", "o", "u", "t", "h", " ", "A", "m", "e", "r", "i", "c", "a">>,
       <<"E", "u", "r", "o", "p", "e">>,
       <<"A", "f", "r", "i", "c", "a">>,
       <<"A", "s", "i", "a">>,
       <<"O", "c", "e", "a", "n", "i", "a">> >>

DEFAULT_TITLE ==
    <<"T", "r", "a", "f", "f", "i", "c", " ", "b", "y", " ", "R", "e", "g", "i", "o", "n">>

TOTAL_REQUESTS ==
    <<"T", "o", "t", "a", "l", " ", "R", "e", "q", "u", "e", "s", "t", "s", ":", " ">>

MAP_INNER_WIDTH == 50

MAP_BAR_WIDTH == 25

countryToRegion(countryCode) ==
    CASE countryCode \in {"US", "CA", "MX"} -> "NA" []
         countryCode \in {"BR", "AR", "CL", "CO"} -> "SA" []
         countryCode \in {"GB", "DE", "FR", "IT", "ES", "NL", "SE", "PL", "CH", "AT",
                          "BE", "IE", "DK", "NO", "FI", "PT", "CZ", "RO", "HU", "GR",
                          "RU", "UA", "TR"} -> "EU" []
         countryCode \in {"ZA", "NG", "EG"} -> "AF" []
         countryCode \in {"CN", "JP", "KR", "IN", "SG", "HK", "TW", "ID", "TH", "VN",
                          "MY", "PH", "SA", "AE", "IL"} -> "AS" []
         countryCode \in {"AU", "NZ"} -> "OC" []
         OTHER -> "undefined"

RECURSIVE regionTotal(_, _)
regionTotal(data, region) ==
    IF data = <<>> THEN Num(0)
    ELSE IF countryToRegion(data[Len(data)].countryCode) = region
    THEN Add(regionTotal(SubSeq(data, 1, Len(data) - 1), region), data[Len(data)].value)
    ELSE regionTotal(SubSeq(data, 1, Len(data) - 1), region)

regionMapOf(data) == [i \in 1..Len(REGION_CODES) |-> regionTotal(data, REGION_CODES[i])]

RECURSIVE SumNums(_)
SumNums(s) == IF s = <<>> THEN Num(0) ELSE Add(SumNums(SubSeq(s, 1, Len(s) - 1)), s[Len(s)])

mapBorder(left, right) == <<left>> \o Repeat(<<"u2500">>, Num(MAP_INNER_WIDTH)) \o <<right>>

mapTitleLine(title) ==
    <<"u2502">>
    \o PadEnd(PadStart(title, 25 + (Len(title) \div 2)), MAP_INNER_WIDTH, Space)
    \o <<"u2502">>

regionPercentage(value, totalTraffic) ==
    IF Gt(totalTraffic, Num(0)) THEN Mul(Div(value, totalTraffic), Num(100)) ELSE Num(0)

regionBar(barWidth) == PadEnd(Repeat(BAR_FULL, barWidth), MAP_BAR_WIDTH, PROGRESS_EMPTY)

regionLineOf(name, percentage) ==
    <<"u2502", " ", " ">> \o PadEnd(name, 14, Space) \o <<" ">>
    \o regionBar(Round(Mul(Div(percentage, Num(100)), Num(MAP_BAR_WIDTH))))
    \o <<" ">> \o PadStart(toFixed(percentage, 1), 5) \o <<"%", " ", " ", "u2502">>

regionThrows(value, totalTraffic) ==
    RepeatThrows(Round(Mul(Div(regionPercentage(value, totalTraffic), Num(100)),
                           Num(MAP_BAR_WIDTH))))

mapTotalLine(totalTraffic) ==
    <<"u2502", " ", " ">> \o TOTAL_REQUESTS \o PadStart(toLocaleString(totalTraffic), 30)
    \o <<" ", " ", "u2502">>

mapLines(regionMap, totalTraffic, title) ==
    IF \E i \in 1..Len(regionMap) : regionThrows(regionMap[i], totalTraffic) THEN Throws
    ELSE Plain(<<mapBorder("u250C", "u2510"), mapTitleLine(title), mapBorder("u251C", "u2524")>>
               \o [i \in 1..Len(REGION_CODES) |->
                      regionLineOf(REGION_NAMES[i], regionPercentage(regionMap[i], totalTraffic))]
               \o <<mapBorder("u251C", "u2524"), mapTotalLine(totalTraffic),
                    mapBorder("u2514", "u2518")>>)

mapTotals(regionMap, title) == mapLines(regionMap, SumNums(regionMap), title)

renderSimpleWorldMap(data, options) ==
    mapTotals(regionMapOf(data), Default(options.title, DEFAULT_TITLE))

(***************************************************************************)
(* The literal lines of renderWorldMapWithHeat (ascii-worldmap.ts 122-160). *)
(***************************************************************************)
HEAT_MAP_LINES ==
    << <<"u2502", " ", " ", " ", " ", " ", " ", " ", " ", " ",
          " ", " ", " ", " ", " ", " ", " ", " ", " ", " ",
          " ", " ", " ", " ", " ", " ", " ", " ", " ", " ",
          " ", " ", " ", " ", " ", " ", " ", " ", " ", " ",
          " ", " ", " ", " ", " ", " ", " ", " ", " ", " ",
          " ", " ", " ", " ", " ", " ", " ", " ", " ", " ",
          " ", " ", " ", " ", " ", " ", " ", " ", " ", "u2502">>,
       <<"u2502", " ", " ", " ", " ", " ", " ", " ", " ", " ",
          " ", "u256D", "u2500", "u2500", "u2500", "u2500", "u2500", "u2500", "u2500", "u256E",
          " ", " ", " ", " ", " ", " ", " ", " ", " ", " ",
          " ", " ", " ", " ", " ", " ", " ", " ", " ", "u256D",
          "u2500", "u2500", "u2500", "u2500", "u2500", "u256E", " ", " ", " ", " ",
          " ", " ", " ", " ", " ", " ", " ", " ", " ", " ",
          " ", " ", " ", " ", " ", " ", " ", " ", " ", "u2502">>,
       <<"u2502", " ", " ", " ", " ", " ", " ", " ", "u256D", "u2500",
          "u2500", "u2524", " ", "N", "A", " ", " ", " ", " ", "u2502",
          "u2500", "u2500", "u2500", "u256E", " ", " ", " ", " ", " ", " ",
          " ", " ", " ", " ", " ", " ", "u256D", "u2500", "u2500", "u2524",
          " ", "E", "U", " ", " ", "u2502", "u2500", "u2500", "u256E", " ",
          " ", " ", " ", " ", " ", " ", "u256D", "u2500", "u2500", "u2500",
          "u256E", " ", " ", " ", " ", " ", " ", " ", " ", "u2502">>,
       <<"u2502", " ", " ", " ", " ", " ", " ", "u256D", "u2534", "u2500",
          "u2500", "u2534", "u2500", "u2500", "u2500", "u2500", "u2500", "u2500", "u2500", "u2534",
          "u2500", "u2500", "u2500", "u2534", "u256E", " ", " ", " ", " ", " ",
          " ", " ", " ", " ", " ", "u256D", "u2534", "u2500", "u2500", "u2534",
          "u2500", "u2500", "u2500", "u2500", "u2500", "u2534", "u2500", "u2500", "u2534", "u256E",
          " ", " ", " ", "u256D", "u2500", "u2500", "u2524", " ", "A", "S",
          "u2502", "u2500", "u2500", "u256E", " ", " ", " ", " ", " ", "u2502">>,
       <<"u2502", " ", " ", " ", " ", " ", " ", "u2502", " ", " ",
          " ", " ", " ", " ", " ", " ", " ", " ", " ", " ",
          " ", " ", " ", " ", "u2502", " ", " ", " ", " ", " ",
          " ", " ", " ", " ", " ", "u2502", " ", " ", " ", " ",
          " ", " ", " ", " ", " ", " ", " ", " ", " ", "u2502",
          " ", " ", " ", "u2502", " ", " ", " ", " ", " ", " ",
          " ", " ", " ", "u2502", " ", " ", " ", " ", " ", "u2502">>,
       <<"u2502", " ", " ", " ", " ", " ", " ", "u2502", " ", " ",
          " ", " ", "u25C9", " ", "U", "S", " ", " ", " ", " ",
          " ", " ", " ", " ", "u2502", " ", " ", " ", " ", " ",
          " ", " ", " ", " ", " ", "u2502", " ", " ", "u25C9", " ",
          "D", "E", " ", "u25C9", " ", "G", "B", " ", " ", "u2502",
          " ", " ", " ", "u2502", " ", " ", "u25C9", " ", "C", "N",
          " ", " ", " ", "u2502", " ", " ", " ", " ", " ", "u2502">>,
       <<"u2502", " ", " ", " ", " ", " ", " ", "u2502", " ", " ",
          " ", " ", " ", " ", " ", " ", " ", " ", " ", " ",
          " ", " ", " ", " ", "u2502", " ", " ", " ", " ", " ",
          " ", " ", " ", " ", " ", "u2502", " ", " ", "u25C9", " ",
          "F", "R", " ", " ", " ", " ", " ", " ", " ", "u2502",
          " ", " ", " ", "u2502", " ", " ", " ", " ", "u25C9", " ",
          "J", "P", " ", "u2502", " ", " ", " ", " ", " ", "u2502">>,
       <<"u2502", " ", " ", " ", " ", " ", " ", "u2570", "u2500", "u2500",
          "u2500", "u252C", "u2500", "u2500", "u2500", "u2500", "u2500", "u2500", "u2500", "u252C",
          "u2500", "u2500", "u2500", "u2500", "u256F", " ", " ", " ", " ", " ",
          " ", " ", " ", " ", " ", "u2570", "u2500", "u2500", "u2500", "u2500",
          "u2500", "u2500", "u252C", "u2500", "u2500", "u2500", "u2500", "u2500", "u2500", "u256F",
          " ", " ", " ", "u2502", " ", " ", "u25C9", " ", "I", "N",
          " ", " ", " ", "u2502", " ", " ", " ", " ", " ", "u2502">>,
       <<"u2502", " ", " ", " ", " ", " ", " ", " ", " ", " ",
          " ", "u2502", " ", "S", "A", " ", " ", " ", " ", "u2502",
          " ", " ", " ", " ", " ", " ", " ", " ", " ", " ",
          " ", " ", " ", " ", " ", " ", " ", " ", " ", " ",
          " ", " ", "u2502", " ", " ", " ", " ", " ", " ", " ",
          " ", " ", " ", "u2570", "u2500", "u2500", "u2500", "u2500", "u252C", "u2500",
          "u2500", "u2500", "u2500", "u256F", " ", " ", " ", " ", " ", "u2502">>,
       <<"u2502", " ", " ", " ", " ", " ", " ", " ", "u256D", "u2500",
          "u2500", "u2534", "u2500", "u2500", "u2500", "u2500", "u2500", "u2500", "u2500", "u2534",
          "u2500", "u2500", "u256E", " ", " ", " ", " ", " ", " ", " ",
          " ", " ", " ", " ", " ", " ", " ", " ", "u256D", "u2500",
          "u2500", "u2500", "u2534", "u2500", "u2500", "u256E", " ", " ", " ", " ",
          " ", " ", " ", " ", " ", "u256D", "u2500", "u2500", "u2534", "u2500",
          "u2500", "u256E", " ", " ", " ", " ", " ", " ", " ", "u2502">>,
       <<"u2502", " ", " ", " ", " ", " ", " ", " ", "u2502", " ",
          " ", " ", "u25C9", " ", "B", "R", " ", " ", " ", " ",
          " ", " ", "u2502", " ", " ", " ", " ", " ", " ", " ",
          " ", " ", " ", " ", " ", " ", " ", " ", "u2502", " ",
          "A", "F", " ", " ", " ", "u2502", " ", " ", " ", " ",
          " ", " ", " ", " ", " ", "u2502", " ", "A", "U", " ",
          " ", "u2502", " ", " ", " ", " ", " ", " ", " ", "u2502">>,
       <<"u2502", " ", " ", " ", " ", " ", " ", " ", "u2502", " ",
          " ", " ", " ", " ", " ", " ", " ", " ", " ", " ",
          " ", " ", "u2502", " ", " ", " ", " ", " ", " ", " ",
          " ", " ", " ", " ", " ", " ", " ", " ", "u2502", "u25C9",
          " ", "Z", "A", " ", " ", "u2502", " ", " ", " ", " ",
          " ", " ", " ", " ", " ", "u2502", " ", " ", "u25C9", " ",
          " ", "u2502", " ", " ", " ", " ", " ", " ", " ", "u2502">>,
       <<"u2502", " ", " ", " ", " ", " ", " ", " ", "u2570", "u2500",
          "u2500", "u2500", "u2500", "u2500", "u2500", "u2500", "u2500", "u2500", "u2500", "u2500",
          "u2500", "u2500", "u256F", " ", " ", " ", " ", " ", " ", " ",
          " ", " ", " ", " ", " ", " ", " ", " ", "u2570", "u2500",
          "u2500", "u2500", "u2500", "u2500", "u2500", "u256F", " ", " ", " ", " ",
          " ", " ", " ", " ", " ", "u2570", "u2500", "u2500", "u2500", "u2500",
          "u2500", "u256F", " ", " ", " ", " ", " ", " ", " ", "u2502">>,
       <<"u2502", " ", " ", " ", " ", " ", " ", " ", " ", " ",
          " ", " ", " ", " ", " ", " ", " ", " ", " ", " ",
          " ", " ", " ", " ", " ", " ", " ", " ", " ", " ",
          " ", " ", " ", " ", " ", " ", " ", " ", " ", " ",
          " ", " ", " ", " ", " ", " ", " ", " ", " ", " ",
          " ", " ", " ", " ", " ", " ", " ", " ", " ", " ",
          " ", " ", " ", " ", " ", " ", " ", " ", " ", "u2502">> >>

TOP_COUNTRIES_LINE ==
    <<"u2502", " ", " ", "T", "O", "P", " ", "C", "O", "U",
      "N", "T", "R", "I", "E", "S", " ", "B", "Y", " ",
      "T", "R", "A", "F", "F", "I", "C", ":", " ", " ",
      " ", " ", " ", " ", " ", " ", " ", " ", " ", " ",
      " ", " ", " ", " ", " ", " ", " ", " ", " ", " ",
      " ", " ", " ", " ", " ", " ", " ", " ", " ", " ",
      " ", " ", " ", " ", " ", " ", " ", " ", " ", "u2502">>

HEAT_BLANK_LINE ==
    <<"u2502", " ", " ", " ", " ", " ", " ", " ", " ", " ",
      " ", " ", " ", " ", " ", " ", " ", " ", " ", " ",
      " ", " ", " ", " ", " ", " ", " ", " ", " ", " ",
      " ", " ", " ", " ", " ", " ", " ", " ", " ", " ",
      " ", " ", " ", " ", " ", " ", " ", " ", " ", " ",
      " ", " ", " ", " ", " ", " ", " ", " ", " ", " ",
      " ", " ", " ", " ", " ", " ", " ", " ", " ", "u2502">>

HEAT_LEGEND_LINE ==
    <<"u2502", " ", " ", "H", "e", "a", "t", ":", " ", "u2591",
      " ", "<", "2", "5", "%", " ", "u2592", " ", "2", "5",
      "-", "5", "0", "%", " ", "u2593", " ", "5", "0", "-",
      "7", "5", "%", " ", "u2588", " ", ">", "7", "5", "%",
      " ", " ", " ", " ", " ", " ", " ", " ", " ", " ",
      " ", " ", " ", " ", " ", " ", " ", " ", " ", " ",
      " ", " ", " ", " ", " ", " ", " ", " ", "u2502">>

HEAT_TITLE ==
    <<"G", "e", "o", "g", "r", "a", "p", "h", "i", "c",
      " ", "T", "r", "a", "f", "f", "i", "c", " ", "D",
      "i", "s", "t", "r", "i", "b", "u", "t", "i", "o",
      "n">>

(***************************************************************************)
(* renderWorldMapWithHeat (ascii-worldmap.ts)                              *)
(***************************************************************************)
HEAT_CHARS == << <<"u2591">>, <<"u2592">>, <<"u2593">>, <<"u2588">> >>

HEAT_INNER_WIDTH == 68

HEAT_BAR_WIDTH == 35

SHOW_TOP == 10

NAME_WIDTH == 18

\* The characters of a country code.
CodeChars(countryCode) ==
    CASE countryCode = "US" -> <<"U", "S">>
      [] countryCode = "DE" -> <<"D", "E">>
      [] countryCode = "CN" -> <<"C", "N">>
      [] countryCode = "BR" -> <<"B", "R">>
      [] OTHER -> <<"X", "X">>

\* Array.prototype.sort((a, b) => b.value - a.value), which is stable
insertByValue(sorted, item) ==
    LET before == {k \in 1..Len(sorted) : Ge(sorted[k].value, item.value)}
        n == IF before = {} THEN 0 ELSE CHOOSE k \in before : \A j \in before : j <= k
    IN  SubSeq(sorted, 1, n) \o <<item>> \o SubSeq(sorted, n + 1, Len(sorted))

RECURSIVE sortByValue(_)
sortByValue(data) ==
    IF data = <<>> THEN <<>>
    ELSE insertByValue(sortByValue(SubSeq(data, 1, Len(data) - 1)), data[Len(data)])

\* Array.prototype.slice(0, end)
Slice(s, end) ==
    IF end < 0 THEN SubSeq(s, 1, Len(s) + end)
    ELSE IF end > Len(s) THEN s
    ELSE SubSeq(s, 1, end)

heatBorder(left, right) == <<left>> \o Repeat(<<"u2500">>, Num(HEAT_INNER_WIDTH)) \o <<right>>

heatTitleLine(title) ==
    <<"u2502">>
    \o PadEnd(PadStart(title, 34 + (Len(title) \div 2)), HEAT_INNER_WIDTH, Space)
    \o <<"u2502">>

heatIndexOf_noClamp(percentage) == Floor(Div(percentage, Num(25)))

heatIndexOf(percentage) ==
    MathMin(Floor(Div(percentage, Num(25))), Num(Len(HEAT_CHARS) - 1))

heatCharOf(percentage) == Nullish(At(HEAT_CHARS, heatIndexOf(percentage)), <<"u2591">>)

heatBarWidth(value, maxValue) == Round(Mul(Div(value, maxValue), Num(HEAT_BAR_WIDTH)))

heatCountryName(item) ==
    PadEnd(Substring(IF item.label = Undefined THEN CodeChars(item.countryCode) ELSE item.label,
                     0, NAME_WIDTH),
           NAME_WIDTH, Space)

heatLineOf(item, percentage, barWidth) ==
    <<"u2502", " ", " ">> \o CodeChars(item.countryCode) \o <<" ">>
    \o heatCountryName(item) \o <<" ">>
    \o PadEnd(Repeat(heatCharOf(percentage), barWidth), HEAT_BAR_WIDTH, Space)
    \o <<" ">> \o PadStart(toFixed(percentage, 1), 5) \o <<"%", " ", " ", "u2502">>

heatLine(item, maxValue) ==
    heatLineOf(item, Mul(Div(item.value, maxValue), Num(100)),
               heatBarWidth(item.value, maxValue))

heatLegend(sortedData, maxValue) ==
    <<TOP_COUNTRIES_LINE, HEAT_BLANK_LINE>>
    \o [i \in 1..Len(sortedData) |-> heatLine(sortedData[i], maxValue)]
    \o <<HEAT_BLANK_LINE, HEAT_LEGEND_LINE>>

heatMap(title) ==
    <<heatBorder("u250C", "u2510"), heatTitleLine(title), heatBorder("u251C", "u2524")>>
    \o HEAT_MAP_LINES
    \o <<heatBorder("u251C", "u2524")>>

heatLines(data, sortedData, maxValue, showLegend, title) ==
    IF showLegend /\ Len(data) > 0
    THEN IF \E i \in 1..Len(sortedData) :
               RepeatThrows(heatBarWidth(sortedData[i].value, maxValue))
         THEN Throws
         ELSE Plain(heatMap(title) \o heatLegend(sortedData, maxValue)
                    \o <<heatBorder("u2514", "u2518")>>)
    ELSE Plain(heatMap(title) \o <<heatBorder("u2514", "u2518")>>)

renderWorldMapWithHeat(data, options) ==
    heatLines(data,
              Slice(sortByValue(data), Default(options.showTop, Num(SHOW_TOP))[1]),
              MathMax(MaxOf(ItemValues(data)), Num(1)),
              options.showLegend,
              Default(options.title, HEAT_TITLE))

(***************************************************************************)
(* renderTopCountriesTable (ascii-worldmap.ts) and its own formatters      *)
(***************************************************************************)
TOP_TABLE_TOP ==
    <<"u250C", "u2500", "u2500", "u2500", "u2500", "u252C", "u2500", "u2500", "u2500", "u2500",
      "u2500", "u2500", "u2500", "u2500", "u2500", "u2500", "u2500", "u2500", "u2500", "u2500",
      "u2500", "u2500", "u2500", "u2500", "u2500", "u2500", "u252C", "u2500", "u2500", "u2500",
      "u2500", "u2500", "u2500", "u2500", "u2500", "u2500", "u2500", "u2500", "u2500", "u2500",
      "u2500", "u252C", "u2500", "u2500", "u2500", "u2500", "u2500", "u2500", "u2500", "u2500",
      "u2500", "u2500", "u2500", "u2500", "u2500", "u252C", "u2500", "u2500", "u2500", "u2500",
      "u2500", "u2500", "u2500", "u2500", "u2500", "u2510">>

TOP_TABLE_HEADER ==
    <<"u2502", " ", "#", " ", " ", "u2502", " ", "C", "o", "u",
      "n", "t", "r", "y", " ", " ", " ", " ", " ", " ",
      " ", " ", " ", " ", " ", " ", "u2502", " ", "R", "e",
      "q", "u", "e", "s", "t", "s", " ", " ", " ", " ",
      " ", "u2502", " ", "B", "a", "n", "d", "w", "i", "d",
      "t", "h", " ", " ", " ", "u2502", " ", "S", "h", "a",
      "r", "e", " ", " ", " ", "u2502">>

TOP_TABLE_SEPARATOR ==
    <<"u251C", "u2500", "u2500", "u2500", "u2500", "u253C", "u2500", "u2500", "u2500", "u2500",
      "u2500", "u2500", "u2500", "u2500", "u2500", "u2500", "u2500", "u2500", "u2500", "u2500",
      "u2500", "u2500", "u2500", "u2500", "u2500", "u2500", "u253C", "u2500", "u2500", "u2500",
      "u2500", "u2500", "u2500", "u2500", "u2500", "u2500", "u2500", "u2500", "u2500", "u2500",
      "u2500", "u253C", "u2500", "u2500", "u2500", "u2500", "u2500", "u2500", "u2500", "u2500",
      "u2500", "u2500", "u2500", "u2500", "u2500", "u253C", "u2500", "u2500", "u2500", "u2500",
      "u2500", "u2500", "u2500", "u2500", "u2500", "u2524">>

TOP_TABLE_BOTTOM ==
    <<"u2514", "u2500", "u2500", "u2500", "u2500", "u2534", "u2500", "u2500", "u2500", "u2500",
      "u2500", "u2500", "u2500", "u2500", "u2500", "u2500", "u2500", "u2500", "u2500", "u2500",
      "u2500", "u2500", "u2500", "u2500", "u2500", "u2500", "u2534", "u2500", "u2500", "u2500",
      "u2500", "u2500", "u2500", "u2500", "u2500", "u2500", "u2500", "u2500", "u2500", "u2500",
      "u2500", "u2534", "u2500", "u2500", "u2500", "u2500", "u2500", "u2500", "u2500", "u2500",
      "u2500", "u2500", "u2500", "u2500", "u2500", "u2534", "u2500", "u2500", "u2500", "u2500",
      "u2500", "u2500", "u2500", "u2500", "u2500", "u2518">>

TABLE_LIMIT == 10

\* formatCompact of ascii-worldmap.ts
worldmap_formatCompact(value) ==
    IF Ge(value, Num(1000 * Million))
    THEN toFixed(Div(value, Num(1000 * Million)), 1) \o <<"B">>
    ELSE IF Ge(value, Num(Million))
    THEN toFixed(Div(value, Num(Million)), 1) \o <<"M">>
    ELSE IF Ge(value, Num(1000))
    THEN toFixed(Div(value, Num(1000)), 1) \o <<"K">>
    ELSE NumberToString(value)

WORLDMAP_UNITS == <<<<"B">>, <<"K", "B">>, <<"M", "B">>, <<"G", "B">>, <<"T", "B">>>>

worldmap_formatBytesOf(sized) ==
    toFixed(sized[1], 1) \o <<" ">> \o WORLDMAP_UNITS[sized[2] + 1]

\* formatBytes of ascii-worldmap.ts
worldmap_formatBytes(bytes) == worldmap_formatBytesOf(bytesLoop(bytes, 0, WORLDMAP_UNITS))

sortByRequests_insert(sorted, item) ==
    LET before == {k \in 1..Len(sorted) : Ge(sorted[k].requests, item.requests)}
        n == IF before = {} THEN 0 ELSE CHOOSE k \in before : \A j \in before : j <= k
    IN  SubSeq(sorted, 1, n) \o <<item>> \o SubSeq(sorted, n + 1, Len(sorted))

RECURSIVE sortByRequests(_)
sortByRequests(geoTraffic) ==
    IF geoTraffic = <<>> THEN <<>>
    ELSE sortByRequests_insert(sortByRequests(SubSeq(geoTraffic, 1, Len(geoTraffic) - 1)),
                               geoTraffic[Len(geoTraffic)])

topCountriesRequests(item) == PadStart(worldmap_formatCompact(item.requests), 12)

topCountriesBandwidth(item) == PadStart(worldmap_formatBytes(item.bandwidth), 11)

topCountriesLine(item, index) ==
    <<"u2502", " ">> \o PadStart(Digits(index + 1), 2)
    \o <<" ", "u2502", " ">> \o PadEnd(Substring(item.countryName, 0, 18), 18, Space)
    \o <<" ", "u2502", " ">> \o topCountriesRequests(item)
    \o <<" ", "u2502", " ">> \o topCountriesBandwidth(item)
    \o <<" ", "u2502", " ">> \o PadStart(toFixed(item.percentage, 1), 5) \o <<"%">>
    \o <<" ", "u2502">>

topCountriesLines(sortedData) ==
    <<TOP_TABLE_TOP, TOP_TABLE_HEADER, TOP_TABLE_SEPARATOR>>
    \o [i \in 1..Len(sortedData) |-> topCountriesLine(sortedData[i], i - 1)]
    \o <<TOP_TABLE_BOTTOM>>

renderTopCountriesTable(geoTraffic, limit) ==
    Plain(topCountriesLines(Slice(sortByRequests(geoTraffic), Default(limit, Num(TABLE_LIMIT))[1])))

(***************************************************************************)
(* table                                                                   *)
(***************************************************************************)
BOX_LIGHT ==
    [topLeft |-> "u250C", topRight |-> "u2510", bottomLeft |-> "u2514",
     bottomRight |-> "u2518", horizontal |-> "u2500", vertical |-> "u2502",
     cross |-> "u253C", tLeft |-> "u251C", tRight |-> "u2524", tTop |-> "u252C",
     tBottom |-> "u2534"]

CellLengths(rows, i) ==
    [r \in 1..Len(rows) |-> Num(Len(Nullish(At(rows[r], Num(i - 1)), <<>>)))]

inferWidth_noPadding(rows, headers, i) ==
    MathMax(Num(Len(headers[i])), MaxOf(CellLengths(rows, i)))

inferWidth(rows, headers, i) ==
    Add(MathMax(Num(Len(headers[i])), MaxOf(CellLengths(rows, i))), Num(2))

\* An optional array argument is Absent or Given(array).
Absent == <<>>

Given(array) == <<array>>

tableWidths(rows, headers, columnWidths) ==
    IF columnWidths # Absent THEN columnWidths[1]
    ELSE [i \in 1..Len(headers) |-> inferWidth(rows, headers, i)]

alignPadded(str, pad, alignment) ==
    CASE alignment = "right" -> Repeat(Space, pad) \o str
      [] alignment = "center" ->
            Repeat(Space, Floor(Div(pad, Num(2)))) \o str
            \o Repeat(Space, Ceil(Div(pad, Num(2))))
      [] OTHER -> str \o Repeat(Space, pad)

alignPad(str, width, pad, alignment) ==
    IF Le(pad, Num(0)) THEN Substring(str, 0, width[1])
    ELSE alignPadded(str, pad, alignment)

align(str, width, alignment) ==
    alignPad(str, width,
             IF width = Undefined THEN NaN ELSE Sub(width, Num(Len(str))),
             alignment)

\* alignments?.[i]
alignmentAt(alignments, i) ==
    IF alignments = Undefined \/ i > Len(alignments) THEN "undefined" ELSE alignments[i]

RECURSIVE JoinWith(_, _)
JoinWith(strs, separator) ==
    IF Len(strs) = 0 THEN <<>>
    ELSE IF Len(strs) = 1 THEN strs[1]
    ELSE strs[1] \o <<separator>> \o JoinWith(Tail(strs), separator)

tableBorder(widths, left, mid, right) ==
    <<left>>
    \o JoinWith([i \in 1..Len(widths) |-> Repeat(<<BOX_LIGHT.horizontal>>, widths[i])], mid)
    \o <<right>>

tableRow(cells, widths, alignments) ==
    <<BOX_LIGHT.vertical>>
    \o JoinWith([i \in 1..Len(cells) |->
                    align(cells[i], At(widths, Num(i - 1)), alignmentAt(alignments, i))],
                BOX_LIGHT.vertical)
    \o <<BOX_LIGHT.vertical>>

tableLines(rows, headers, widths, alignments) ==
    IF \E i \in 1..Len(widths) : RepeatThrows(widths[i]) THEN Throws
    ELSE Plain(<<tableBorder(widths, BOX_LIGHT.topLeft, BOX_LIGHT.tTop, BOX_LIGHT.topRight),
                 tableRow(headers, widths, alignments),
                 tableBorder(widths, BOX_LIGHT.tLeft, BOX_LIGHT.cross, BOX_LIGHT.tRight)>>
               \o [r \in 1..Len(rows) |-> tableRow(rows[r], widths, alignments)]
               \o <<tableBorder(widths, BOX_LIGHT.bottomLeft, BOX_LIGHT.tBottom,
                                BOX_LIGHT.bottomRight)>>)

table(rows, options) ==
    tableLines(rows, options.headers,
               tableWidths(rows, options.headers, options.columnWidths),
               options.alignments)

(***************************************************************************)
Values == (0 - NegVals)..MaxVal

RECURSIVE SeqsUpTo(_, _)
SeqsUpTo(S, n) ==
    IF n = 0 THEN {<<>>}
    ELSE LET shorter == SeqsUpTo(S, n - 1)
         IN  shorter \cup {Append(s, v) : s \in {t \in shorter : Len(t) = n - 1}, v \in S}

ToNums(s) == [i \in 1..Len(s) |-> Num(s[i])]

ScenarioSeries == {<<0, 5, 10>>}

Series == {ToNums(s) : s \in SeqsUpTo(Values, MaxLen) \cup ScenarioSeries}

Targets == 0..MaxTarget

\* A series of 15 values, and target lengths of which 11 and 13 are
\* those whose last bucket boundary is rounded.
LongSeries == {ToNums(<<1, 2, 3, 4, 5, 6, 7, 8, 9, 10, 11, 12, 13, 14, 15>>)}

LongTargets == {5, 11, 13}

ResampleCalls == (Series \X Targets) \cup (LongSeries \X LongTargets)

ChartValues == 0..MaxChartVal

\* A series whose minimum has a compact form of seven characters.
LongLabelSeries == {<<-100000, 0>>}

ChartSeries ==
    {ToNums(s) : s \in SeqsUpTo(ChartValues, MaxChartLen) \cup ScenarioSeries
                       \cup LongLabelSeries}

Points == {[i \in 1..Len(data) |-> [timestamp |-> i, value |-> data[i]]] : data \in ChartSeries}

OptionalNum(S) == {Undefined} \cup {Num(i) : i \in S}

Widths == OptionalNum((0 - NegDims)..MaxWidth)

Heights == OptionalNum((0 - NegDims)..MaxHeight)

NormBounds == OptionalNum(0..1)

Titles == {Undefined, <<"H", "i">>}

MaxItems == 2

MaxItemVal == 2

MaxBarWidth == 3

MaxSize == 4

LabelOf(i) == [j \in 1..i |-> "a"]

ItemSeries == SeqsUpTo(0..MaxItemVal, MaxItems)

BarItems == {[i \in 1..Len(s) |-> [label |-> LabelOf(i), value |-> Num(s[i])]] : s \in ItemSeries}

DonutItems ==
    {[i \in 1..Len(s) |-> [label |-> LabelOf(i), value |-> Num(s[i]), char |-> Undefined]] :
        s \in ItemSeries}
    \cup {<<[label |-> LabelOf(1), value |-> Num(1), char |-> <<"#">>]>>}

Countries == {"US", "DE", "CN", "XX"}

MapEntries == {[countryCode |-> c, value |-> Num(v)] : c \in Countries, v \in 0..MaxItemVal}

MapData == SeqsUpTo(MapEntries, MaxItems)

ProgressValues == {Num(i) : i \in (0 - 1)..(MaxItemVal + 1)}

ProgressMaxima == {Num(i) : i \in (0 - 1)..MaxItemVal}

ProgressScenario == <<Num(50), Num(100), Num(10)>>

BarWidths == OptionalNum((0 - 1)..MaxBarWidth)

LabelWidths == OptionalNum((0 - 1)..1)

Sizes == OptionalNum((0 - 1)..MaxSize)

MaxTop == 2

HeatCountries == {"US", "DE", "XX"}

HeatEntries ==
    {[countryCode |-> c, value |-> Num(v), label |-> Undefined] :
        c \in HeatCountries, v \in 0..MaxItemVal}

HeatData ==
    SeqsUpTo(HeatEntries, MaxItems)
    \cup {<<[countryCode |-> "BR", value |-> Num(3),
             label |-> <<"B", "r", "a", "z", "i", "l">>]>>}

\* The legend is varied with the default title, the title without the legend.
HeatOptions ==
    {[showLegend |-> TRUE, showTop |-> showTop, title |-> Undefined] :
        showTop \in OptionalNum(0..MaxTop)}
    \cup {[showLegend |-> FALSE, showTop |-> Undefined, title |-> title] : title \in Titles}

GeoRequests == {0, 999, 1500, 2500000}

GeoBandwidths == {0, 512, 1536, 3145728}

GeoNames == <<<<"G", "e", "r", "m", "a", "n", "y">>, <<"C", "h", "i", "n", "a">>>>

\* The share of the largest request count, as the caller computes it.
GeoTrafficEntries ==
    {[countryCode |-> "XX", countryName |-> GeoNames[(r % 2) + 1],
      requests |-> Num(r), bandwidth |-> Num(b),
      percentage |-> Div(Num(r), Num(25000))] : r \in GeoRequests, b \in GeoBandwidths}

GeoTrafficData == SeqsUpTo(GeoTrafficEntries, MaxItems)

GeoLimits == OptionalNum(0..MaxTop)

CompactMillions ==
    {0, 1, 2, 99, 100, 999, 1000, 1500, 2146, 999949, 999950, 999999, 1000000, 1150000, 1500000,
     999999999}

CompactUnits == {0, 1, 999, 1000, 1150, 1500, 999949, 999950, 999999}

CompactValues ==
    {[sign |-> s, millions |-> m, units |-> u] :
        s \in {1}, m \in CompactMillions, u \in CompactUnits}
    \cup {[sign |-> s, millions |-> m, units |-> u] :
            s \in {-1}, m \in CompactMillions \ {0}, u \in CompactUnits}
    \cup {[sign |-> s, millions |-> m, units |-> u] :
            s \in {-1}, m \in {0}, u \in CompactUnits \ {0}}

MaxCalls == 3

SessionSeries == {ToNums(s) : s \in ScenarioSeries \cup {<<1, 2>>}}

SessionWidths == {Undefined, Num(2)}

SessionOptions ==
    {[width |-> width, min |-> min, max |-> Undefined] :
        width \in SessionWidths, min \in NormBounds}

Emails == {"a", "b"}

Tokens == {"t1", "t2"}

NewAccounts == {[email |-> email, apiToken |-> token] : email \in Emails, token \in Tokens}

\* CLOUDFLARE_API_TOKEN set or not, CLOUDFLARE_EMAIL unset or an email
Environments ==
    {[token |-> FALSE, email |-> ""]}
    \cup {[token |-> TRUE, email |-> email] : email \in {"", "a"}}

MaxZones == 2

MaxRequests == 3

TimeRanges == {"24h", "7d", "30d"}

RangeKeys == {<<"h", "24h">>, <<"w", "7d">>, <<"m", "30d">>}

MaxBuckets == 2

MaxLoads == 3

MaxRows == 2

MaxCols == 2

MaxColWidth == 3

CellTexts == {<<"a">>, <<"b", "b">>}

HEADER_NAMES == << <<"X">>, <<"Y">>, <<"Z", "Z">>, <<"W">> >>

TableRowChoices == {[i \in 1..n |-> c] : n \in 0..MaxCols, c \in CellTexts}

TableRows == SeqsUpTo(TableRowChoices, MaxRows)

TableHeaders == {[i \in 1..n |-> HEADER_NAMES[((i - 1) % Len(HEADER_NAMES)) + 1]] : n \in 0..MaxCols}

ColumnWidths ==
    {Absent}
    \cup {Given([i \in 1..n |-> Num(w)]) : n \in 0..MaxCols, w \in (0 - 1)..MaxColWidth}
    \cup {Given(<<Num(1), Num(3)>>)}

Alignments ==
    {Undefined, <<"right">>, <<"center", "right">>, <<"left", "center">>}

ScenarioTable ==
    [rows |-> << << <<"a">>, <<"1">> >>, << <<"b", "b">>, <<"2", "2">> >> >>,
     options |-> [headers |-> << <<"X">>, <<"Y">> >>, columnWidths |-> Absent,
                  alignments |-> Undefined]]

TableCalls ==
    {[rows |-> rows,
      options |-> [headers |-> headers, columnWidths |-> columnWidths,
                   alignments |-> alignments]] :
        rows \in TableRows, headers \in TableHeaders, columnWidths \in ColumnWidths,
        alignments \in Alignments}
    \cup {ScenarioTable}

\* Calls that leave the width or the height to its default draw the large
\* default grid; they are made with the series of the documented scenario
\* and with the empty series.
DefaultSized(data, width, height) ==
    (width = Undefined \/ height = Undefined)
    => data \in {ToNums(s) : s \in ScenarioSeries} \cup {<<>>}

(***************************************************************************)
(* The caller.                                                             *)
(***************************************************************************)
Init ==
    /\ fn = "idle"
    /\ args = <<>>
    /\ out = <<>>
    /\ raised = FALSE
    /\ indices = {}
    /\ resampled = <<>>
    /\ previous = <<>>
    /\ process = "off"
    /\ env = [token |-> FALSE, email |-> ""]
    /\ file = <<>>
    /\ cachedStore = <<>>
    /\ op = [name |-> "none"]
    /\ analytics = [mounted |-> FALSE, zones |-> 0, selectedZoneIndex |-> 0,
                    timeRange |-> "24h", loading |-> TRUE, error |-> FALSE,
                    shown |-> <<>>, inflight |-> {}, started |-> 0]
    /\ r2 = [mounted |-> FALSE, authenticated |-> FALSE, view |-> "list",
             buckets |-> 0, loading |-> TRUE, error |-> FALSE,
             selectedIndex |-> 0, inflight |-> {}, started |-> 0]

Return ==
    /\ fn # "idle"
    /\ fn' = "idle"
    /\ args' = <<>>
    /\ out' = <<>>
    /\ raised' = FALSE
    /\ indices' = {}
    /\ resampled' = <<>>
    /\ UNCHANGED <<previous, appVars>>

CallResample ==
    /\ fn = "idle"
    /\ \E call \in ResampleCalls :
        /\ fn' = "resample"
        /\ args' = [data |-> call[1], targetLength |-> call[2]]
        /\ out' = resample(call[1], call[2])
        /\ raised' = FALSE
        /\ indices' = {}
        /\ resampled' = out'
        /\ UNCHANGED <<previous, appVars>>

Called(name, arguments, r) ==
    /\ fn' = name
    /\ args' = arguments
    /\ out' = r.value
    /\ raised' = r.raised
    /\ indices' = r.indices
    /\ resampled' = r.resampled

Returns(name, arguments, r) ==
    /\ Called(name, arguments, r)
    /\ UNCHANGED <<previous, appVars>>

NotRaised(r) == [raised |-> FALSE, value |-> r.value, indices |-> r.indices,
                 resampled |-> r.resampled]

CallSparkline ==
    /\ fn = "idle"
    /\ \E data \in ChartSeries, width \in Widths, min \in NormBounds, max \in NormBounds :
          Returns("sparkline",
                  [data |-> data, options |-> [width |-> width, min |-> min, max |-> max]],
                  NotRaised(sparkline(data, [width |-> width, min |-> min, max |-> max])))

CallHistogram ==
    /\ fn = "idle"
    /\ \E data \in ChartSeries, width \in Widths, height \in Heights,
          showAxis \in BOOLEAN, title \in Titles :
          /\ DefaultSized(data, width, height)
          /\ Returns("histogram",
                     [data |-> data,
                      options |-> [width |-> width, height |-> height,
                                   showAxis |-> showAxis, title |-> title]],
                     histogram(data, [width |-> width, height |-> height,
                                      showAxis |-> showAxis, title |-> title]))

CallAreaChart ==
    /\ fn = "idle"
    /\ \E data \in ChartSeries, width \in Widths, height \in Heights,
          showLabels \in BOOLEAN :
          /\ DefaultSized(data, width, height)
          /\ Returns("areaChart",
                     [data |-> data,
                      options |-> [width |-> width, height |-> height,
                                   showLabels |-> showLabels]],
                     areaChart(data, [width |-> width, height |-> height,
                                      showLabels |-> showLabels]))

NextWaveform == CallSparkline \/ CallHistogram \/ CallAreaChart \/ Return

SpecWaveform == Init /\ [][NextWaveform]_vars

NextResample == CallResample \/ Return

SpecResample == Init /\ [][NextResample]_vars

CallProgressBar ==
    /\ fn = "idle"
    /\ \E value \in ProgressValues \cup {ProgressScenario[1]},
          max \in ProgressMaxima \cup {ProgressScenario[2]},
          width \in BarWidths \cup {ProgressScenario[3]},
          showPercentage \in BOOLEAN :
          /\ (<<value, max, width>> = ProgressScenario
              \/ (value \in ProgressValues /\ max \in ProgressMaxima /\ width \in BarWidths))
          /\ Returns("progressBar",
                     [value |-> value, max |-> max,
                      options |-> [width |-> width, showPercentage |-> showPercentage]],
                     progressBar(value, max,
                                 [width |-> width, showPercentage |-> showPercentage]))

CallBarChart ==
    /\ fn = "idle"
    /\ \E items \in BarItems, width \in BarWidths, showValue \in BOOLEAN,
          maxLabelWidth \in LabelWidths :
          Returns("barChart",
                  [items |-> items,
                   options |-> [width |-> width, showValue |-> showValue,
                                maxLabelWidth |-> maxLabelWidth]],
                  barChart(items, [width |-> width, showValue |-> showValue,
                                   maxLabelWidth |-> maxLabelWidth]))

CallDonutChart ==
    /\ fn = "idle"
    /\ \E items \in DonutItems, size \in Sizes, showLegend \in BOOLEAN :
          Returns("donutChart",
                  [items |-> items, options |-> [size |-> size, showLegend |-> showLegend]],
                  donutChart(items, [size |-> size, showLegend |-> showLegend]))

CallRenderSimpleWorldMap ==
    /\ fn = "idle"
    /\ \E data \in MapData, title \in Titles :
          Returns("renderSimpleWorldMap",
                  [data |-> data, options |-> [title |-> title]],
                  renderSimpleWorldMap(data, [title |-> title]))

NextProportional ==
    CallProgressBar \/ CallBarChart \/ CallDonutChart \/ CallRenderSimpleWorldMap \/ Return

SpecProportional == Init /\ [][NextProportional]_vars

CallSparklineFromPoints ==
    /\ fn = "idle"
    /\ \E points \in Points, width \in Widths :
          Returns("sparklineFromPoints",
                  [points |-> points,
                   options |-> [width |-> width, min |-> Undefined, max |-> Undefined]],
                  NotRaised(sparklineFromPoints(points,
                      [width |-> width, min |-> Undefined, max |-> Undefined])))

CallHistogramFromPoints ==
    /\ fn = "idle"
    /\ \E points \in Points, width \in Widths, height \in Heights :
          /\ DefaultSized(PointValues(points), width, height)
          /\ Returns("histogramFromPoints",
                     [points |-> points,
                      options |-> [width |-> width, height |-> height,
                                   showAxis |-> TRUE, title |-> Undefined]],
                     histogramFromPoints(points,
                         [width |-> width, height |-> height,
                          showAxis |-> TRUE, title |-> Undefined]))

CallAreaChartFromPoints ==
    /\ fn = "idle"
    /\ \E points \in Points, width \in Widths, height \in Heights :
          /\ DefaultSized(PointValues(points), width, height)
          /\ Returns("areaChartFromPoints",
                     [points |-> points,
                      options |-> [width |-> width, height |-> height, showLabels |-> TRUE]],
                     areaChartFromPoints(points,
                         [width |-> width, height |-> height, showLabels |-> TRUE]))

NextRenderers ==
    \/ CallSparkline \/ CallSparklineFromPoints
    \/ CallHistogram \/ CallHistogramFromPoints
    \/ CallAreaChart \/ CallAreaChartFromPoints
    \/ CallBarChart \/ CallDonutChart
    \/ Return

SpecRenderers == Init /\ [][NextRenderers]_vars

CallTable ==
    /\ fn = "idle"
    /\ \E call \in TableCalls : Returns("table", call, table(call.rows, call.options))

NextTable == CallTable \/ Return

SpecTable == Init /\ [][NextTable]_vars

CallRenderWorldMapWithHeat ==
    /\ fn = "idle"
    /\ \E data \in HeatData, options \in HeatOptions :
          Returns("renderWorldMapWithHeat", [data |-> data, options |-> options],
                  renderWorldMapWithHeat(data, options))

CallRenderTopCountriesTable ==
    /\ fn = "idle"
    /\ \E geoTraffic \in GeoTrafficData, limit \in GeoLimits :
          Returns("renderTopCountriesTable", [geoTraffic |-> geoTraffic, limit |-> limit],
                  renderTopCountriesTable(geoTraffic, limit))

NextGeo == CallRenderWorldMapWithHeat \/ CallRenderTopCountriesTable \/ Return

SpecGeo == Init /\ [][NextGeo]_vars

CallFormatCompact ==
    /\ fn = "idle"
    /\ \E value \in CompactValues :
          Returns("formatCompact", [value |-> value], Plain(formatCompactInteger(value)))

NextFormat == CallFormatCompact \/ Return

SpecFormat == Init /\ [][NextFormat]_vars

(***************************************************************************)
(* A session of render calls.  The first sparkline call and its result are *)
(* remembered, together with the number of render calls made after it.     *)
(***************************************************************************)
Remembered(name, arguments, value) ==
    IF previous = <<>>
    THEN IF name = "sparkline"
         THEN [args |-> arguments, out |-> value, calls |-> 0]
         ELSE previous
    ELSE [previous EXCEPT !.calls = IF @ < MaxCalls THEN @ + 1 ELSE @]

SessionCall(name, arguments, r) ==
    /\ Called(name, arguments, r)
    /\ previous' = Remembered(name, arguments, r.value)
    /\ UNCHANGED appVars

SessionSparkline ==
    /\ fn = "idle"
    /\ \E data \in SessionSeries, options \in SessionOptions :
          SessionCall("sparkline", [data |-> data, options |-> options],
                      NotRaised(sparkline(data, options)))

SessionHistogram ==
    /\ fn = "idle"
    /\ \E data \in SessionSeries, height \in {Num(1), Num(2)} :
          SessionCall("histogram",
                      [data |-> data,
                       options |-> [width |-> Num(2), height |-> height,
                                    showAxis |-> TRUE, title |-> Undefined]],
                      histogram(data, [width |-> Num(2), height |-> height,
                                       showAxis |-> TRUE, title |-> Undefined]))

SessionBarChart ==
    /\ fn = "idle"
    /\ \E items \in BarItems :
          SessionCall("barChart",
                      [items |-> items,
                       options |-> [width |-> Num(2), showValue |-> TRUE,
                                    maxLabelWidth |-> Undefined]],
                      barChart(items, [width |-> Num(2), showValue |-> TRUE,
                                       maxLabelWidth |-> Undefined]))

NextSession == SessionSparkline \/ SessionHistogram \/ SessionBarChart \/ Return

SpecSession == Init /\ [][NextSession]_vars

(***************************************************************************)
(* The credential store's process.  It starts with some environment and    *)
(* the credentials file the earlier runs left; every operation first       *)
(* loads the store (loadCredentials), which caches it.                     *)
(***************************************************************************)
Boot ==
    /\ process = "off"
    /\ \E environment \in Environments :
          /\ process' = "on"
          /\ env' = environment
          /\ cachedStore' = <<>>
          /\ op' = [name |-> "boot"]
    /\ UNCHANGED <<file, chartVars, screenVars>>

Exit ==
    /\ process = "on"
    /\ process' = "off"
    /\ cachedStore' = <<>>
    /\ op' = [name |-> "exit"]
    /\ UNCHANGED <<env, file, chartVars, screenVars>>

\* saveCredentials
Saved(name, email, before, store) ==
    /\ cachedStore' = <<store>>
    /\ file' = <<store>>
    /\ op' = [name |-> name, email |-> email, before |-> before,
              threw |-> FALSE, saved |-> TRUE, result |-> <<>>]

NotSaved(name, email, before, threw, result) ==
    /\ cachedStore' = <<before>>
    /\ file' = file
    /\ op' = [name |-> name, email |-> email, before |-> before,
              threw |-> threw, saved |-> FALSE, result |-> result]

AddAccount ==
    /\ process = "on"
    /\ \E account \in NewAccounts :
          Saved("addAccount", account.email, loadCredentials(cachedStore, env, file),
                addAccount(loadCredentials(cachedStore, env, file), account))
    /\ UNCHANGED <<process, env, chartVars, screenVars>>

RemoveAccount ==
    /\ process = "on"
    /\ \E email \in Emails \cup {"env-user"} :
          Saved("removeAccount", email, loadCredentials(cachedStore, env, file),
                removeAccount(loadCredentials(cachedStore, env, file), email))
    /\ UNCHANGED <<process, env, chartVars, screenVars>>

Switched(email, before, r) ==
    IF r.threw THEN NotSaved("switchAccount", email, before, TRUE, <<>>)
    ELSE Saved("switchAccount", email, before, r.store)

SwitchAccount ==
    /\ process = "on"
    /\ \E email \in Emails \cup {"env-user"} :
          Switched(email, loadCredentials(cachedStore, env, file),
                   switchAccount(loadCredentials(cachedStore, env, file), email))
    /\ UNCHANGED <<process, env, chartVars, screenVars>>

GetCurrentAccount ==
    /\ process = "on"
    /\ NotSaved("getCurrentAccount", Null, loadCredentials(cachedStore, env, file), FALSE,
                getCurrentAccount(loadCredentials(cachedStore, env, file)))
    /\ UNCHANGED <<process, env, chartVars, screenVars>>

NextStore ==
    Boot \/ Exit \/ AddAccount \/ RemoveAccount \/ SwitchAccount \/ GetCurrentAccount

SpecStore == Init /\ [][NextStore]_vars

(***************************************************************************)
(* The Analytics screen (src/unnamed/part_001, Analytics).  The zones are  *)
(* 0 .. zones - 1; the traffic, performance, geo and worker data are set   *)
(* together and are held by the zone and time range they were fetched for. *)
(* A key handler is taken together with the render and the effects that    *)
(* follow it; the responses of the requests arrive in any order.           *)
(***************************************************************************)
\* loadAnalytics of the render with this zone index and time range
loadAnalytics(a, zone, range) ==
    IF zone >= a.zones THEN a
    ELSE [a EXCEPT !.loading = TRUE,
                   !.error = FALSE,
                   !.inflight = @ \cup {[id |-> a.started, zone |-> zone, range |-> range]},
                   !.started = @ + 1]

\* the effect on [selectedZone, loadAnalytics]: runs when either has changed
analyticsEffect(before, after) ==
    IF before.selectedZoneIndex = after.selectedZoneIndex
       /\ before.timeRange = after.timeRange
       /\ before.zones = after.zones
    THEN after
    ELSE loadAnalytics(after, after.selectedZoneIndex, after.timeRange)

AnalyticsLoadZones ==
    /\ ~analytics.mounted
    /\ \E fetchedZones \in 0..MaxZones :
          analytics' = analyticsEffect(analytics,
                          [analytics EXCEPT !.mounted = TRUE, !.zones = fetchedZones])
    /\ UNCHANGED <<chartVars, storeVars, r2>>

AnalyticsRangeKey ==
    /\ analytics.mounted
    /\ analytics.started < MaxRequests
    /\ \E key \in RangeKeys :
          analytics' = analyticsEffect(analytics, [analytics EXCEPT !.timeRange = key[2]])
    /\ UNCHANGED <<chartVars, storeVars, r2>>

AnalyticsRefreshKey ==
    /\ analytics.mounted
    /\ analytics.started < MaxRequests
    /\ analytics' = loadAnalytics(analytics, analytics.selectedZoneIndex, analytics.timeRange)
    /\ UNCHANGED <<chartVars, storeVars, r2>>

AnalyticsTabKey ==
    /\ analytics.mounted
    /\ analytics.started < MaxRequests
    /\ analytics.zones > 1
    /\ analytics' = analyticsEffect(analytics,
                        [analytics EXCEPT !.selectedZoneIndex = (@ + 1) % analytics.zones])
    /\ UNCHANGED <<chartVars, storeVars, r2>>

\* Promise.all resolves: the four setters, then finally
AnalyticsResponse ==
    /\ \E request \in analytics.inflight :
          analytics' = [analytics EXCEPT
                           !.shown = <<[zone |-> request.zone, range |-> request.range]>>,
                           !.loading = FALSE,
                           !.inflight = @ \ {request}]
    /\ UNCHANGED <<chartVars, storeVars, r2>>

\* Promise.all rejects: catch, then finally
AnalyticsFailure ==
    /\ \E request \in analytics.inflight :
          analytics' = [analytics EXCEPT
                           !.error = TRUE,
                           !.loading = FALSE,
                           !.inflight = @ \ {request}]
    /\ UNCHANGED <<chartVars, storeVars, r2>>

NextAnalytics ==
    \/ AnalyticsLoadZones
    \/ AnalyticsRangeKey
    \/ AnalyticsRefreshKey
    \/ AnalyticsTabKey
    \/ AnalyticsResponse
    \/ AnalyticsFailure

SpecAnalytics == Init /\ [][NextAnalytics]_vars

(***************************************************************************)
(* The R2 screen (src/unnamed/part_001, R2).  buckets is the length of the *)
(* bucket list.  loadBuckets is recreated when selectedIndex changes, and  *)
(* the effect on [loadBuckets] then calls it; a load in flight keeps the   *)
(* selectedIndex of the render that created it.                            *)
(***************************************************************************)
loadBuckets(s) ==
    IF ~s.authenticated
    THEN [s EXCEPT !.error = TRUE, !.loading = FALSE]
    ELSE [s EXCEPT !.loading = TRUE,
                   !.error = FALSE,
                   !.inflight = @ \cup {[id |-> s.started, selectedIndex |-> s.selectedIndex]},
                   !.started = @ + 1]

\* the effect on [loadBuckets]: runs when selectedIndex has changed
r2Effect(before, after) ==
    IF before.selectedIndex = after.selectedIndex THEN after ELSE loadBuckets(after)

setSelectedIndex(s, index) == r2Effect(s, [s EXCEPT !.selectedIndex = index])

clampSelectedIndex(s, captured, length) ==
    IF captured >= length
    THEN setSelectedIndex(s, IF length - 1 > 0 THEN length - 1 ELSE 0)
    ELSE s

R2Mount ==
    /\ ~r2.mounted
    /\ \E authenticated \in BOOLEAN :
          r2' = loadBuckets([r2 EXCEPT !.mounted = TRUE, !.authenticated = authenticated])
    /\ UNCHANGED <<chartVars, storeVars, analytics>>

R2DownKey ==
    /\ r2.mounted
    /\ r2.view = "list"
    /\ r2.started < MaxLoads
    /\ r2' = setSelectedIndex(r2, IF r2.selectedIndex + 1 < r2.buckets - 1
                                  THEN r2.selectedIndex + 1
                                  ELSE r2.buckets - 1)
    /\ UNCHANGED <<chartVars, storeVars, analytics>>

R2UpKey ==
    /\ r2.mounted
    /\ r2.view = "list"
    /\ r2.started < MaxLoads
    /\ r2' = setSelectedIndex(r2, IF r2.selectedIndex - 1 > 0 THEN r2.selectedIndex - 1 ELSE 0)
    /\ UNCHANGED <<chartVars, storeVars, analytics>>

R2EnterKey ==
    /\ r2.mounted
    /\ r2.view = "list"
    /\ 0 <= r2.selectedIndex /\ r2.selectedIndex < r2.buckets
    /\ r2' = [r2 EXCEPT !.view = "details"]
    /\ UNCHANGED <<chartVars, storeVars, analytics>>

R2EscapeKey ==
    /\ r2.mounted
    /\ r2.view = "details"
    /\ r2' = [r2 EXCEPT !.view = "list"]
    /\ UNCHANGED <<chartVars, storeVars, analytics>>

R2RefreshKey ==
    /\ r2.mounted
    /\ r2.view = "list"
    /\ r2.started < MaxLoads
    /\ r2' = loadBuckets(r2)
    /\ UNCHANGED <<chartVars, storeVars, analytics>>

\* listR2Buckets resolves with a list of this length
R2Response ==
    /\ \E load \in r2.inflight, length \in 0..MaxBuckets :
          r2' = clampSelectedIndex(
                    [r2 EXCEPT !.buckets = length,
                               !.loading = FALSE,
                               !.inflight = @ \ {load}],
                    load.selectedIndex, length)
    /\ UNCHANGED <<chartVars, storeVars, analytics>>

R2Failure ==
    /\ \E load \in r2.inflight :
          r2' = [r2 EXCEPT !.error = TRUE, !.loading = FALSE, !.inflight = @ \ {load}]
    /\ UNCHANGED <<chartVars, storeVars, analytics>>

NextR2 ==
    \/ R2Mount
    \/ R2DownKey
    \/ R2UpKey
    \/ R2EnterKey
    \/ R2EscapeKey
    \/ R2RefreshKey
    \/ R2Response
    \/ R2Failure

SpecR2 == Init /\ [][NextR2]_vars

(***************************************************************************)
(* Claims about resample.                                                  *)
(***************************************************************************)
IsUpsample == fn = "resample" /\ Len(args.data) >= 1 /\ args.targetLength > Len(args.data)

IsDownsample == fn = "resample" /\ args.targetLength >= 1 /\ Len(args.data) > args.targetLength

\* C1 (as stated): resample(s, n) has exactly n elements for every s, the
\* empty sequence included, and every n >= 0.
C1_LengthForEverySeries == fn = "resample" => Len(out) = args.targetLength

\* C1 (amended): for every non-empty s and every n >= 0, resample(s, n) has
\* exactly n elements; for the empty s it is empty whatever n is.
C1_LengthUnlessEmpty ==
    fn = "resample" =>
        Len(out) = IF Len(args.data) = 0 THEN 0 ELSE args.targetLength

C1_Witness == IsDownsample /\ Len(args.data) = 4 /\ args.targetLength = 3 /\ Len(out) = 3

\* C2: resample(s, len(s)) = s element by element, and resampling twice to
\* the same n >= 1 gives what resampling once gives.
C2_IdentityAndIdempotence ==
    fn = "resample" =>
        /\ (args.targetLength = Len(args.data) => out = args.data)
        /\ (args.targetLength >= 1 => resample(out, args.targetLength) = out)

C2_Witness ==
    /\ fn = "resample"
    /\ Len(args.data) = 1
    /\ args.targetLength = 1
    /\ out = args.data

SampledExactly(k, length, targetLength) ==
    length = 1 \/ (k * (targetLength - 1)) % (length - 1) = 0

IsWaveform == fn \in {"sparkline", "histogram", "areaChart"}

CallWidth ==
    IF fn = "sparkline" THEN Default(args.options.width, Num(Len(args.data)))[1]
    ELSE IF fn = "histogram" THEN Default(args.options.width, Num(HISTOGRAM_WIDTH))[1]
    ELSE Default(args.options.width, Num(AREA_WIDTH))[1]

CallHeight ==
    IF fn = "histogram" THEN Default(args.options.height, Num(HISTOGRAM_HEIGHT))[1]
    ELSE IF fn = "areaChart" THEN Default(args.options.height, Num(AREA_HEIGHT))[1]
    ELSE 1

GlyphIndices == {Num(k) : k \in 0..(Len(SPARKLINE_CHARS) - 1)}

IsScenario1 ==
    /\ fn = "sparkline"
    /\ args.data = <<Num(0), Num(5), Num(10)>>
    /\ args.options = [width |-> Num(5), min |-> Undefined, max |-> Undefined]

DefaultFlags ==
    /\ fn = "histogram" => args.options.showAxis /\ args.options.title = Undefined
    /\ fn = "areaChart" => args.options.showLabels

NonPositive(v) == v # Undefined /\ v[1] <= 0

\* C7: for a non-empty series and a width or height <= 0, sparkline,
\* histogram and areaChart with their default flags return the empty result
\* and do not throw.
C7_EmptyForNonPositiveSize ==
    ( /\ IsWaveform
      /\ Len(args.data) >= 1
      /\ DefaultFlags
      /\ \/ NonPositive(args.options.width)
         \/ (fn # "sparkline" /\ NonPositive(args.options.height)) )
    => (~raised /\ out = <<>>)

(***************************************************************************)
(* Claims about the proportional renderers.                                *)
(***************************************************************************)
CallSize == Default(args.options.size, Num(DONUT_SIZE))[1]

Contains(s, sub) ==
    \E i \in 1..(Len(s) - Len(sub) + 1) : SubSeq(s, i, i + Len(sub) - 1) = sub

OutputLines == IF fn = "progressBar" THEN <<out>> ELSE out

AllZero(entries) == \A i \in 1..Len(entries) : entries[i].value = Num(0)

ZeroTotal ==
    \/ fn = "progressBar" /\ args.max = Num(0)
    \/ fn \in {"barChart", "donutChart"} /\ Len(args.items) >= 1 /\ AllZero(args.items)
    \/ fn = "renderSimpleWorldMap" /\ AllZero(args.data)

NoNaNOrInfinity ==
    \A i \in 1..Len(OutputLines) :
        /\ ~Contains(OutputLines[i], NumberToString(NaN))
        /\ ~Contains(OutputLines[i], NumberToString(Infinity))

\* The percentage shown by a line, when it shows one, is 0% (0.0% on the map).
ShowsZeroPercent(line) ==
    Contains(line, <<"%">>) =>
        \/ Contains(line, <<" ", "0", "%">>)
        \/ Contains(line, <<" ", "0", ".", "0", "%">>)

\* No filled block in a bar; no glyph in the grid rows of a donut.
EmptyBars ==
    IF fn = "donutChart"
    THEN \A i \in 1..CallSize : \A k \in 1..Len(out[i]) : out[i][k] = " "
    ELSE \A i \in 1..Len(OutputLines) :
            \A k \in 1..Len(OutputLines[i]) : <<OutputLines[i][k]>> # BAR_FULL

\* C8: when the total (the maximum, for progressBar) is zero, every category
\* is shown as 0% with an empty bar, and the output holds no NaN and no
\* Infinity.
C8_ZeroTotalRendersZero ==
    (ZeroTotal /\ ~raised) =>
        /\ NoNaNOrInfinity
        /\ \A i \in 1..Len(OutputLines) : ShowsZeroPercent(OutputLines[i])
        /\ EmptyBars

(***************************************************************************)
(* Claims about the table renderer.                                        *)
(***************************************************************************)
CallWidths == tableWidths(args.rows, args.options.headers, args.options.columnWidths)

RECURSIVE SumWidths(_)
SumWidths(widths) == IF widths = <<>> THEN 0 ELSE widths[1][1] + SumWidths(Tail(widths))

\* Two outer borders, the columns, and one separator between two columns.
GridLength(widths) ==
    IF widths = <<>> THEN 2 ELSE SumWidths(widths) + Len(widths) + 1

\* The cells of a rendered row: the text between consecutive vertical bars.
RECURSIVE CellsOf(_, _)
CellsOf(line, cell) ==
    IF line = <<>> THEN <<>>
    ELSE IF Head(line) = BOX_LIGHT.vertical THEN <<cell>> \o CellsOf(Tail(line), <<>>)
    ELSE CellsOf(Tail(line), Append(cell, Head(line)))

RowCells(line) == CellsOf(Tail(line), <<>>)

\* C9: every header cell and data cell of column i is rendered with exactly
\* widths[i] characters, whatever the rows (ragged ones included), so all
\* the lines of a table have the same length.
C9_CellsHaveColumnWidth ==
    (fn = "table" /\ ~raised) =>
        /\ \A r \in 2..(Len(out) - 1) :
               (r # 3 /\ Len(CallWidths) >= 1) =>
                  /\ Len(RowCells(out[r])) = Len(CallWidths)
                  /\ \A i \in 1..Len(CallWidths) :
                         Len(RowCells(out[r])[i]) = CallWidths[i][1]
        /\ \A r \in 1..Len(out) : Len(out[r]) = GridLength(CallWidths)

IsScenario3 == fn = "table" /\ args = ScenarioTable

\* C10 (as the spec states it): the scenario table is a 5-line grid whose
\* column "X" is 4 characters wide.
C10_ScenarioFiveLines ==
    IsScenario3 => (Len(out) = 5 /\ CallWidths[1] = Num(4))

\* C10: table([["a","1"],["bb","22"]], headers=["X","Y"]) is a 6-line bordered
\* grid (top border, header row, header separator, two data rows, bottom
\* border) whose column "X" is max(1, 1, 2) + 2 = 4 characters wide.
C10_ScenarioSixLines ==
    IsScenario3 =>
        /\ ~raised
        /\ Len(out) = 6
        /\ CallWidths[1] = Num(4)
        /\ out[1] = tableBorder(<<Num(4), Num(4)>>, "u250C", "u252C", "u2510")
        /\ out[3] = tableBorder(<<Num(4), Num(4)>>, "u251C", "u253C", "u2524")
        /\ out[6] = tableBorder(<<Num(4), Num(4)>>, "u2514", "u2534", "u2518")
        /\ \A r \in {2, 4, 5} : Len(RowCells(out[r])[1]) = 4

C10_Witness ==
    /\ IsScenario3
    /\ out[2] = <<"u2502", "X", " ", " ", " ", "u2502", "Y", " ", " ", " ", "u2502">>
    /\ out[5] = <<"u2502", "b", "b", " ", " ", "u2502", "2", "2", " ", " ", "u2502">>

(***************************************************************************)
(* Claims about the donut, the bars and the progress bar.                  *)
(***************************************************************************)
CountIn(line, ch) == Cardinality({k \in 1..Len(line) : line[k] = ch})

RECURSIVE CountInRows(_, _, _)
CountInRows(lines, rows, ch) ==
    IF rows = 0 THEN 0 ELSE CountInRows(lines, rows - 1, ch) + CountIn(lines[rows], ch)

\* The number of grid cells of the donut that carry the glyph of category i.
RingCellsOf(i) == CountInRows(out, CallSize, DONUT_CHARS[i][1])

RingCells == CountInRows(out, CallSize, " ")

\* A donut call with a positive total, default glyphs and a grid.
IsDonut ==
    /\ fn = "donutChart"
    /\ CallSize >= 1
    /\ Len(args.items) >= 1
    /\ \A i \in 1..Len(args.items) : args.items[i].char = Undefined
    /\ SumValues(args.items) # Num(0)

DonutRingTotal == 2 * CallSize * CallSize - RingCells

\* C11: the number of ring cells carrying a category's glyph is within one
\* cell of that category's share of all ring cells.
C11_RingCellsProportional ==
    IsDonut =>
        \A i \in 1..Len(args.items) :
            Abs(RingCellsOf(i) * SumValues(args.items)[1]
                - args.items[i].value[1] * DonutRingTotal) <= SumValues(args.items)[1]

\* a < cumulative share, for the normalized angle a of a grid cell
AngleLt(angle, cumulativePercentage) ==
    IF angle.lo = angle.hi THEN Lt(angle.lo, cumulativePercentage)
    ELSE Le(angle.hi, cumulativePercentage)

\* The first category, in input order, whose cumulative share exceeds the angle.
RECURSIVE FirstExceeding(_, _, _, _)
FirstExceeding(items, i, cumulative, angle) ==
    IF i > Len(items) THEN 0
    ELSE IF AngleLt(angle, Add(cumulative, Div(items[i].value, SumValues(items)))) THEN i
    ELSE FirstExceeding(items, i + 1, Add(cumulative, Div(items[i].value, SumValues(items))),
                        angle)

CellAngle(x, y) ==
    NormalizedAngle(x - 2 * (CallSize \div 2), 2 * (y - (CallSize \div 2)))

\* C12: a ring cell carries the glyph of the first category whose cumulative
\* share strictly exceeds the cell's normalized angle, so a category of value
\* 0 has no ring cell.
C12_FirstCategoryExceedingAngle ==
    IsDonut =>
        /\ \A y \in 0..(CallSize - 1), x \in 0..(2 * CallSize - 1) :
               out[y + 1][x + 1] # " " =>
                  /\ FirstExceeding(args.items, 1, Num(0), CellAngle(x, y)) # 0
                  /\ <<out[y + 1][x + 1]>> =
                        DONUT_CHARS[FirstExceeding(args.items, 1, Num(0), CellAngle(x, y))]
        /\ \A i \in 1..Len(args.items) :
               args.items[i].value = Num(0) => RingCellsOf(i) = 0

\* (value / maxValue) * width of item i of a barChart call
BarProduct(i) ==
    Mul(Div(args.items[i].value, barMaxValue(args.items)),
        Default(args.options.width, Num(BAR_WIDTH)))

PartialGlyphs == {BAR_PARTIAL[k][1] : k \in 2..Len(BAR_PARTIAL)}

\* C13: a bar whose (value / maxValue) * width is not an integer is the whole
\* blocks of the integer part followed by one partial-block glyph.
C13_PartialBlockForRemainder ==
    (fn = "barChart" /\ ~raised) =>
        \A i \in 1..Len(args.items) :
            (BarProduct(i)[2] > 1 /\ Gt(BarProduct(i), Num(0))) =>
                /\ CountIn(out[i], BAR_FULL[1]) = Floor(BarProduct(i))[1]
                /\ \E g \in PartialGlyphs : CountIn(out[i], g) = 1

ProgressWidth == Default(args.options.width, Num(PROGRESS_WIDTH))[1]

\* clamp(value / max, 0, 1) for max > 0
ClampedShare ==
    IF Le(args.value, Num(0)) THEN Num(0)
    ELSE IF Ge(args.value, args.max) THEN Num(1)
    ELSE Div(args.value, args.max)

FilledWidth == Round(Mul(ClampedShare, Num(ProgressWidth)))[1]

PercentSuffix ==
    IF args.options.showPercentage
    THEN <<" ">> \o Digits(Round(Mul(ClampedShare, Num(100)))[1]) \o <<"%">>
    ELSE <<>>

IsScenario4 ==
    /\ fn = "progressBar"
    /\ <<args.value, args.max, args.options.width>> = ProgressScenario
    /\ args.options.showPercentage

\* C14: for max > 0 and width >= 0 the progress bar is filledWidth =
\* round(clamp(value / max, 0, 1) * width) filled characters, then
\* width - filledWidth empty ones, then " P%" when requested;
\* progressBar(50, 100, width = 10) is 5 filled, 5 empty and " 50%".
C14_ProgressBarShape ==
    /\ (fn = "progressBar" /\ Gt(args.max, Num(0)) /\ ProgressWidth >= 0) =>
           /\ ~raised
           /\ 0 <= FilledWidth /\ FilledWidth <= ProgressWidth
           /\ Len(out) = ProgressWidth + Len(PercentSuffix)
           /\ \A k \in 1..FilledWidth : <<out[k]>> = PROGRESS_FILLED
           /\ \A k \in (FilledWidth + 1)..ProgressWidth : <<out[k]>> = PROGRESS_EMPTY
           /\ SubSeq(out, ProgressWidth + 1, Len(out)) = PercentSuffix
    /\ IsScenario4 =>
           out = <<"u2588", "u2588", "u2588", "u2588", "u2588",
                   "u2591", "u2591", "u2591", "u2591", "u2591", " ", "5", "0", "%">>

C14_Witness ==
    /\ IsScenario4
    /\ FilledWidth = 5
    /\ Len(out) = 14

(***************************************************************************)
(* Claims about the histogram axis.                                        *)
(***************************************************************************)
TitleLines == IF fn = "histogram" /\ Truthy(args.options.title) THEN 2 ELSE 0

AxisPrefix == LABEL_WIDTH + 2

\* C15: with showAxis and height >= 1 the top chart row starts with the
\* compact maximum and the bottom chart row with the compact minimum, each
\* right-aligned in 6 characters, and every chart row and the axis line have
\* the same prefix width.
C15_AxisLabels ==
    (fn = "histogram" /\ ~raised /\ Len(args.data) >= 1 /\ args.options.showAxis
        /\ CallHeight >= 1) =>
        /\ Len(out) = TitleLines + CallHeight + 1
        /\ SubSeq(out[TitleLines + 1], 1, LABEL_WIDTH)
              = PadStart(formatCompact(MaxOf(args.data)), LABEL_WIDTH)
        /\ SubSeq(out[TitleLines + CallHeight], 1, LABEL_WIDTH)
              = PadStart(formatCompact(MinOf(args.data)), LABEL_WIDTH)
        /\ \A r \in 1..CallHeight :
               /\ Len(out[TitleLines + r]) = AxisPrefix + Len(resampled)
               /\ out[TitleLines + r][AxisPrefix] = "u2502"
        /\ out[TitleLines + CallHeight + 1][AxisPrefix] = "u2514"

(***************************************************************************)
(* C16, C17: renderWorldMapWithHeat                                        *)
(***************************************************************************)
IsHeat == fn = "renderWorldMapWithHeat" /\ ~raised

HeatListed == fn = "renderWorldMapWithHeat" /\ ~raised /\ Len(out) > 19

\* The lines that precede the first listed entry, and the three lines after the last one.
HeatRows == Len(out) - 23

HeatCode(i) == SubSeq(out[20 + i], 4, 5)

HeatBar(i) == SubSeq(out[20 + i], 26, 60)

HeatShowTop == Default(args.options.showTop, Num(SHOW_TOP))[1]

HeatShare(item) ==
    Div(Mul(Num(100), item.value), MathMax(MaxOf(ItemValues(args.data)), Num(1)))

HeatLevel(p) ==
    IF Lt(p, Num(25)) THEN 0
    ELSE IF Lt(p, Num(50)) THEN 1
    ELSE IF Lt(p, Num(75)) THEN 2
    ELSE 3

HeatGlyphs(p) == Round(Mul(Div(p, Num(100)), Num(35)))[1]

ExpectedHeatBar(p) ==
    [k \in 1..35 |-> IF k <= HeatGlyphs(p) THEN HEAT_CHARS[HeatLevel(p) + 1][1] ELSE " "]

\* The listed entries in order, as an injection into the supplied data.
HeatRankings ==
    {f \in [1..HeatRows -> 1..Len(args.data)] :
        \A i, j \in 1..HeatRows : i # j => f[i] # f[j]}

IsRanking(f) ==
    /\ \A i \in 1..HeatRows :
          /\ HeatCode(i) = CodeChars(args.data[f[i]].countryCode)
          /\ HeatBar(i) = ExpectedHeatBar(HeatShare(args.data[f[i]]))
          /\ HeatGlyphs(HeatShare(args.data[f[i]])) <= 35
    /\ \A i, j \in 1..HeatRows :
          i < j => Ge(args.data[f[i]].value, args.data[f[j]].value)
    /\ \A i \in 1..HeatRows, k \in 1..Len(args.data) :
          (\A j \in 1..HeatRows : f[j] # k) => Ge(args.data[f[i]].value, args.data[k].value)

MapPart(lines) == SubSeq(lines, 4, 17)

TopCodes(data, options) ==
    {Slice(sortByValue(data), Default(options.showTop, Num(SHOW_TOP))[1])[i].countryCode :
        i \in 1..Len(Slice(sortByValue(data), Default(options.showTop, Num(SHOW_TOP))[1]))}

\* C17: the map lines of renderWorldMapWithHeat depend on the top N countries
\* of the data: a second data set whose top N countries differ from those of
\* the call yields different map lines under the same options.
C17_MapMarksTopCountries ==
    IsHeat =>
        \A other \in HeatData :
            TopCodes(other, args.options) # TopCodes(args.data, args.options)
            => MapPart(renderWorldMapWithHeat(other, args.options).value) # MapPart(out)

(***************************************************************************)
(* C18: renderTopCountriesTable against the Formatter                      *)
(***************************************************************************)
IsTopTable == fn = "renderTopCountriesTable" /\ ~raised

TopTableRows == Len(out) - 4

RequestsCell(i) == SubSeq(out[3 + i], 29, 40)

BandwidthCell(i) == SubSeq(out[3 + i], 44, 54)

\* C18: every row of renderTopCountriesTable shows, for one of the supplied
\* entries, the request count as the chart engine's formatCompact renders it
\* and the bandwidth as the chart engine's formatBytes renders it.
C18_TableUsesFormatter ==
    IsTopTable =>
        \A i \in 1..TopTableRows :
            \E k \in 1..Len(args.geoTraffic) :
                /\ RequestsCell(i) = PadStart(formatCompact(args.geoTraffic[k].requests), 12)
                /\ BandwidthCell(i) = PadStart(formatBytes(args.geoTraffic[k].bandwidth), 11)

(***************************************************************************)
(* C19: formatCompact on integers                                          *)
(***************************************************************************)
IsCompact == fn = "formatCompact" /\ ~raised

CompactBody == IF args.value.sign < 0 THEN Tail(out) ELSE out

CompactSuffix == <<CompactBody[Len(CompactBody)]>>

DigitOf(ch) == (CHOOSE k \in 1..10 : DigitChars[k] = ch) - 1

RECURSIVE ParseDigits(_)
ParseDigits(s) ==
    IF s = <<>> THEN 0
    ELSE 10 * ParseDigits(SubSeq(s, 1, Len(s) - 1)) + DigitOf(s[Len(s)])

IsDigits(s) == Len(s) >= 1 /\ \A k \in 1..Len(s) : \E d \in 1..10 : DigitChars[d] = s[k]

\* The body is <digits>.<digit><suffix>.
HasOneDecimal ==
    /\ Len(CompactBody) >= 4
    /\ CompactBody[Len(CompactBody) - 2] = "."
    /\ IsDigits(SubSeq(CompactBody, 1, Len(CompactBody) - 3))
    /\ IsDigits(<<CompactBody[Len(CompactBody) - 1]>>)

\* The number shown, in tenths.
CompactShown ==
    10 * ParseDigits(SubSeq(CompactBody, 1, Len(CompactBody) - 3))
    + DigitOf(CompactBody[Len(CompactBody) - 1])

\* |n * per * Million - (millions * Million + units)| <= per * Million / 2
NearestTenth(n, per, millions, units) ==
    /\ n * per - millions <= per \div 2
    /\ n * per - millions >= (IF units = 0 THEN 0 ELSE 1) - (per \div 2)

\* |n * unit - v| <= unit / 2
NearestTenthOf(n, unit, v) ==
    /\ 2 * (n * unit - v) <= unit
    /\ 2 * (v - n * unit) <= unit

CompactPlain == args.value.millions * Million + args.value.units

\* C19: formatCompact of an integer v picks the suffix by magnitude
\* (|v| >= 1e12 T, >= 1e9 B, >= 1e6 M, >= 1e3 K) and shows |v| / scale
\* rounded to one decimal, shows 1 <= |v| < 1000 as the integer itself,
\* and prefixes "-" to the rendering of |v| when v < 0;
\* formatCompact(1500) = "1.5K" and formatCompact(999) = "999".
C19_CompactSuffixByMagnitude ==
    IsCompact =>
        /\ args.value.sign < 0 =>
              out = <<"-">> \o formatCompactInteger([args.value EXCEPT !.sign = 1])
        /\ args.value.millions >= Million =>
              /\ CompactSuffix = <<"T">>
              /\ HasOneDecimal
              /\ NearestTenth(CompactShown, 100000, args.value.millions, args.value.units)
        /\ (args.value.millions >= 1000 /\ args.value.millions < Million) =>
              /\ CompactSuffix = <<"B">>
              /\ HasOneDecimal
              /\ NearestTenth(CompactShown, 100, args.value.millions, args.value.units)
        /\ (args.value.millions >= 1 /\ args.value.millions < 1000) =>
              /\ CompactSuffix = <<"M">>
              /\ HasOneDecimal
              /\ NearestTenthOf(CompactShown, 100000, CompactPlain)
        /\ (args.value.millions = 0 /\ args.value.units >= 1000) =>
              /\ CompactSuffix = <<"K">>
              /\ HasOneDecimal
              /\ NearestTenthOf(CompactShown, 100, CompactPlain)
        /\ (args.value.millions = 0 /\ args.value.units >= 1 /\ args.value.units < 1000) =>
              CompactBody = Digits(args.value.units)
        /\ args.value = [sign |-> 1, millions |-> 0, units |-> 1500] =>
              out = <<"1", ".", "5", "K">>
        /\ args.value = [sign |-> 1, millions |-> 0, units |-> 999] =>
              out = <<"9", "9", "9">>

C19_Witness ==
    /\ IsCompact
    /\ args.value = [sign |-> -1, millions |-> 1500000, units |-> 1]
    /\ out = <<"-", "1", ".", "5", "T">>

(***************************************************************************)
(* C20: empty input                                                        *)
(***************************************************************************)
EmptyInput ==
    \/ fn \in {"sparkline", "histogram", "areaChart"} /\ args.data = <<>>
    \/ fn \in {"sparklineFromPoints", "histogramFromPoints", "areaChartFromPoints"}
       /\ args.points = <<>>
    \/ fn \in {"barChart", "donutChart"} /\ args.items = <<>>

\* C20: a renderer called with an empty series, an empty list of points or
\* an empty category list does not raise and returns its empty result (the
\* empty string or the empty list of lines), whatever its options are.
C20_EmptyInputEmptyResult == EmptyInput => ~raised /\ out = <<>>

C20_Witness ==
    /\ fn = "areaChart"
    /\ args.data = <<>>
    /\ args.options.width = Num(-1)
    /\ args.options.height = Undefined
    /\ ~raised
    /\ out = <<>>

(***************************************************************************)
(* C21: flat series                                                        *)
(***************************************************************************)
IsFlatSparkline ==
    /\ fn = "sparkline"
    /\ Len(args.data) >= 1
    /\ \A k \in 1..Len(args.data) : args.data[k] = args.data[1]
    /\ args.options.min = Undefined
    /\ args.options.max = Undefined
    /\ Default(args.options.width, Num(Len(args.data)))[1] >= 1

IsRepeatedSparkline ==
    /\ fn = "sparkline"
    /\ previous # <<>>
    /\ previous.calls >= 1
    /\ args = previous.args

BucketOf(i) ==
    {j \in 0..(Len(args.data) - 1) :
        /\ (i * Len(args.data)) \div args.targetLength <= j
        /\ j < ((i + 1) * Len(args.data)) \div args.targetLength}

RECURSIVE SumOver(_, _)
SumOver(data, S) ==
    IF S = {} THEN Num(0)
    ELSE LET j == CHOOSE k \in S : TRUE
         IN  Add(data[j + 1], SumOver(data, S \ {j}))

BucketAverage(i) == Div(SumOver(args.data, BucketOf(i)), Num(Cardinality(BucketOf(i))))

\* C23: when downsampling, the buckets [floor(i*len/n), floor((i+1)*len/n))
\* are non-empty, pairwise disjoint and cover every source index, and
\* output i is the arithmetic mean of bucket i, between the minimum and
\* the maximum of the series.
C23_BucketMeans ==
    IsDownsample =>
        /\ Len(out) = args.targetLength
        /\ \A i \in 0..(args.targetLength - 1) :
              /\ BucketOf(i) # {}
              /\ \A k \in 0..(args.targetLength - 1) :
                    k # i => BucketOf(i) \cap BucketOf(k) = {}
              /\ out[i + 1] = BucketAverage(i)
              /\ Le(MinOf(args.data), out[i + 1])
              /\ Le(out[i + 1], MaxOf(args.data))
        /\ \A j \in 0..(Len(args.data) - 1) :
              \E i \in 0..(args.targetLength - 1) : j \in BucketOf(i)

(***************************************************************************)
(* C24: the shape of a histogram column                                    *)
(***************************************************************************)
IsHistogramGrid ==
    /\ fn = "histogram"
    /\ ~raised
    /\ Len(args.data) >= 1
    /\ CallWidth >= 1
    /\ CallHeight >= 1

\* The glyph of column col (from 1) in chart row row (from 1 at the bottom).
HistogramGlyph(col, row) ==
    out[TitleLines + CallHeight + 1 - row][(IF args.options.showAxis THEN AxisPrefix ELSE 0) + col]

IsPartialGlyph(ch) == \E k \in 1..(Len(SPARKLINE_CHARS) - 1) : SPARKLINE_CHARS[k][1] = ch

\* C24: in every histogram column, from the bottom row up, the glyphs are
\* full blocks, then at most one partial glyph, then blanks; no column has
\* two partial glyphs.
C24_OnePartialRowPerColumn ==
    IsHistogramGrid =>
        \A col \in 1..CallWidth :
            /\ Cardinality({row \in 1..CallHeight : IsPartialGlyph(HistogramGlyph(col, row))}) <= 1
            /\ \A row \in 1..(CallHeight - 1) :
                  /\ HistogramGlyph(col, row) = " " => HistogramGlyph(col, row + 1) = " "
                  /\ HistogramGlyph(col, row + 1) = BAR_FULL[1]
                     => HistogramGlyph(col, row) = BAR_FULL[1]

(***************************************************************************)
(* C25: the shape of an areaChart column                                   *)
(***************************************************************************)
IsAreaGrid ==
    /\ fn = "areaChart"
    /\ ~raised
    /\ Len(args.data) >= 1
    /\ CallWidth >= 1
    /\ CallHeight >= 1

\* The glyph of column col (from 1) in row row (from 1 at the bottom).
AreaGlyph(col, row) ==
    out[CallHeight + 1 - row][Len(out[CallHeight + 1 - row]) - CallWidth + col]

SeriesRange ==
    IF MaxOf(args.data) = MinOf(args.data) THEN Num(1)
    ELSE Sub(MaxOf(args.data), MinOf(args.data))

\* The scaled height f of column col.
ScaledHeight(col) ==
    Mul(Div(Sub(resampled[col], MinOf(args.data)), SeriesRange), Num(CallHeight))

ColumnShape(col, f) ==
    \A row \in 1..CallHeight :
        AreaGlyph(col, row) =
            IF row <= Floor(f)[1] THEN BAR_FULL[1]
            ELSE IF row = Floor(f)[1] + 1
            THEN SPARKLINE_CHARS[Floor(Mul(Sub(f, Floor(f)), Num(8)))[1] + 1][1]
            ELSE " "

FullColumn(col) == \A row \in 1..CallHeight : AreaGlyph(col, row) = BAR_FULL[1]

IsDonutGrid ==
    /\ fn = "donutChart"
    /\ ~raised
    /\ Len(args.items) >= 1
    /\ CallSize >= 1

DonutRadius == CallSize \div 2

\* 100 * d^2 for the cell at column x, row y (both from 0):
\* dx = x/2 - radius and dy = y - radius.
Distance2Times100(x, y) ==
    25 * (x - 2 * DonutRadius) * (x - 2 * DonutRadius)
    + 100 * (y - DonutRadius) * (y - DonutRadius)

\* 0.4 * radius < d < radius, on 100 * d^2
StrictlyInsideRing(x, y) ==
    /\ 16 * DonutRadius * DonutRadius < Distance2Times100(x, y)
    /\ Distance2Times100(x, y) < 100 * DonutRadius * DonutRadius

\* C26: for non-empty items and size >= 1, donutChart emits size grid lines
\* of 2 * size cells, and a cell is non-blank exactly when its distance d
\* from the centre satisfies 0.4 * radius < d < radius.
C26_RingCells ==
    IsDonutGrid =>
        /\ Len(out) = CallSize + (IF args.options.showLegend THEN 1 + Len(args.items) ELSE 0)
        /\ \A y \in 0..(CallSize - 1) :
              /\ Len(out[y + 1]) = 2 * CallSize
              /\ \A x \in 0..(2 * CallSize - 1) :
                    out[y + 1][x + 1] # " " <=> StrictlyInsideRing(x, y)

C26_Witness ==
    /\ IsDonutGrid
    /\ CallSize = 4
    /\ Len(args.items) = 2
    /\ out[3][5] = " "
    /\ out[3][2] # " "
    /\ out[3][1] = " "
    /\ out[1][5] = " "

(***************************************************************************)
(* C27: in every reachable state of the credential store, if at least one  *)
(* account is stored (isAuthenticated) then getCurrentAccount returns one  *)
(* of the stored accounts, never null: current is null or the email of a   *)
(* stored account.                                                         *)
(***************************************************************************)
StoredEmails(store) == {store.accounts[i].email : i \in 1..Len(store.accounts)}

StoredAccounts(store) == {store.accounts[i] : i \in 1..Len(store.accounts)}

CurrentIsStored(store) ==
    /\ store.current = Null \/ store.current \in StoredEmails(store)
    /\ store.accounts # <<>> =>
         /\ getCurrentAccount(store) # <<>>
         /\ getCurrentAccount(store)[1] \in StoredAccounts(store)

C27_CurrentIsStored ==
    isAuthenticated(cachedStore) => CurrentIsStored(cachedStore[1])

(***************************************************************************)
(* C28: switchAccount(email) for an email that is not stored raises the    *)
(* 'Account not found' error and leaves the store unchanged (same          *)
(* accounts, same current, no save); for a stored email it sets current to *)
(* that email and leaves the list of accounts unchanged.                   *)
(***************************************************************************)
IsSwitch == process = "on" /\ op.name = "switchAccount"

C28_SwitchAccount ==
    IsSwitch =>
        IF op.email \in StoredEmails(op.before)
        THEN /\ ~op.threw
             /\ cachedStore[1].current = op.email
             /\ cachedStore[1].accounts = op.before.accounts
        ELSE /\ op.threw
             /\ cachedStore[1] = op.before
             /\ ~op.saved

C28_Witness ==
    /\ IsSwitch
    /\ op.threw
    /\ Len(op.before.accounts) = 2
    /\ op.before.current \in Emails

(***************************************************************************)
(* C29: in the Analytics screen, if the user changes the time range or the *)
(* zone (or presses refresh) while an earlier loadAnalytics request is     *)
(* still in flight, then once all requests have completed the data shown   *)
(* are those fetched for the currently selected zone and time range: a     *)
(* late response for an older selection never overwrites newer data.       *)
(* Stated for the runs in which no request has left an error on screen.    *)
(***************************************************************************)
AnalyticsSelection ==
    [zone |-> analytics.selectedZoneIndex, range |-> analytics.timeRange]

AnalyticsSettled ==
    /\ analytics.mounted
    /\ analytics.started > 0
    /\ analytics.inflight = {}
    /\ ~analytics.error

C29_ShownMatchesSelection ==
    AnalyticsSettled => analytics.shown = <<AnalyticsSelection>>

(***************************************************************************)
(* C30: in the R2 bucket list, after any sequence of j/down, k/up and      *)
(* refresh key events and completed bucket loads (including loads that     *)
(* return no buckets), 0 <= selectedIndex <= max(0, buckets.length - 1).   *)
(***************************************************************************)
R2MaxIndex == IF r2.buckets - 1 > 0 THEN r2.buckets - 1 ELSE 0

C30_SelectedIndexInRange ==
    r2.mounted => 0 <= r2.selectedIndex /\ r2.selectedIndex <= R2MaxIndex
====
